---------------------------- MODULE Spec2Model ----------------------------
(***************************************************************************)
(* NMEA 0183 framing parser (Nmea0183ParserBuilder::build and its helpers  *)
(* crlf, checksum_crlf, checksum, consumed, format_checksum).              *)
(*                                                                         *)
(* Texts are sequences of byte values (0..255); a slice is the sequence of *)
(* its bytes.  A parser result is a record                                 *)
(*     [ok |-> TRUE,  rem |-> remaining input, out |-> output]             *)
(*     [ok |-> FALSE, err |-> error]                                       *)
(* and an error is one of                                                  *)
(*     [tag |-> "NonAscii"]                                                *)
(*     [tag |-> "ChecksumMismatch", expected |-> u8, found |-> u8]         *)
(*     [tag |-> "ParsingError", code |-> ErrorKind, input |-> slice]       *)
(***************************************************************************)
EXTENDS Naturals, Sequences, FiniteSets

VARIABLES
    builder,        \* Nmea0183ParserBuilder {checksum_mode, line_ending_mode}
    last_set,       \* per mode, the argument of the last setter call ("unset": none)
    closure,        \* what build() moved into the returned closure
    pc,             \* "builder", "ready", the stage about to run, or "done"
    input,          \* the argument i of the current parse call
    i,              \* the input after the leading '$'
    cc,             \* the tail: from the first '*' (else CRLF, else end) on
    cc_i,           \* inside checksum_crlf: what the line-ending policy handed on
    data,           \* the content slice
    declared,       \* Option<u8> returned by checksum_crlf
    calc_cc,        \* checksum computed over data
    result,         \* the value the call returned
    stages,         \* stages this call has run, in order
    content_calls,  \* how often this call invoked the content parser
    calls,          \* calls made on the built parser, counted up to MaxCalls
    fn,             \* stand-alone call: which public function was called
    arg,            \* stand-alone call: its argument
    ret             \* stand-alone call: what it returned

vars == <<builder, last_set, closure, pc, input, i, cc, cc_i, data, declared, calc_cc,
          result, stages, content_calls, calls, fn, arg, ret>>

parseVars == <<builder, last_set, closure, pc, input, i, cc, cc_i, data, declared, calc_cc,
               result, stages, content_calls, calls>>

fnVars == <<fn, arg, ret>>

-----------------------------------------------------------------------------
(* Bytes and texts *)

DOLLAR == <<36>>
STAR == <<42>>
CRLF == <<13, 10>>

Byte == 0 .. 255

\* u8 ^ u8
RECURSIVE Xor(_, _)
Xor(a, b) ==
    IF a = 0 THEN b
    ELSE IF b = 0 THEN a
    ELSE (((a % 2) + (b % 2)) % 2) + 2 * Xor(a \div 2, b \div 2)

\* s[from..] as a slice
Drop(s, n) == SubSeq(s, n + 1, Len(s))
Take(s, n) == SubSeq(s, 1, n)

\* Whether pat occurs in s at (1-based) position p
MatchAt(s, pat, p) ==
    /\ p + Len(pat) - 1 <= Len(s)
    /\ \A k \in 1 .. Len(pat) : s[p + k - 1] = pat[k]

\* FindSubstring::find_substring: position of the first occurrence, 0 if none
FindSubstring(s, pat) ==
    LET hits == {p \in 1 .. Len(s) : MatchAt(s, pat, p)}
    IN  IF hits = {} THEN 0 ELSE CHOOSE p \in hits : \A q \in hits : p <= q

\* is_ascii with the scan stopped at the first '*'
is_ascii_before_star(s) ==
    \A k \in 1 .. Len(s) : (\A j \in 1 .. (k - 1) : s[j] # 42) => s[k] < 128

\* <[u8]>::is_ascii
is_ascii(s) == \A k \in 1 .. Len(s) : s[k] < 128

\* AsChar::is_hex_digit: 0-9, A-F, a-f
\* is_hex_digit that knows the uppercase letters only
is_hex_digit_upper(b) == b \in (48 .. 57) \cup (65 .. 70)

is_hex_digit(b) == b \in (48 .. 57) \cup (65 .. 70) \cup (97 .. 102)

\* char::to_digit(16) on a hex digit
to_digit(b) ==
    IF b \in 48 .. 57 THEN b - 48
    ELSE IF b \in 65 .. 70 THEN b - 55
    ELSE IF b \in 97 .. 102 THEN b - 87
    ELSE 0

-----------------------------------------------------------------------------
(* Results and errors *)

Ok(rem, out) == [ok |-> TRUE, rem |-> rem, out |-> out]
Err(e) == [ok |-> FALSE, err |-> e]

\* Error::from_error_kind: a nom error kind wrapped as ParsingError
ParsingError(inp, kind) == [tag |-> "ParsingError", code |-> kind, input |-> inp]
NonAscii == [tag |-> "NonAscii"]
ChecksumMismatch(expected, found) ==
    [tag |-> "ChecksumMismatch", expected |-> expected, found |-> found]

Some(v) == [some |-> TRUE, v |-> v]
None == [some |-> FALSE]

IsErrKind(r, kind) ==
    /\ ~r.ok
    /\ r.err.tag = "ParsingError"
    /\ r.err.code = kind

-----------------------------------------------------------------------------
(* nom combinators, as the parser uses them *)

\* char(c)
char_p(c, s) ==
    IF Len(s) > 0 /\ s[1] = c[1] THEN Ok(Drop(s, 1), c)
    ELSE Err(ParsingError(s, "Char"))

\* take_until(pat): the text before the first pat; pat itself is not consumed
take_until(pat, s) ==
    LET p == FindSubstring(s, pat)
    IN  IF p = 0 THEN Err(ParsingError(s, "TakeUntil"))
        ELSE Ok(Drop(s, p - 1), Take(s, p - 1))

\* rest
rest(s) == Ok(<<>>, s)

\* tag(pat)
tag(pat, s) ==
    IF MatchAt(s, pat, 1) THEN Ok(Drop(s, Len(pat)), pat)
    ELSE Err(ParsingError(s, "Tag"))

\* take(n)
take(n, s) ==
    IF Len(s) < n THEN Err(ParsingError(s, "Eof"))
    ELSE Ok(Drop(s, n), Take(s, n))

\* Length of the longest prefix of hex digits
HexPrefixLen(s) ==
    IF \A k \in 1 .. Len(s) : is_hex_digit(s[k]) THEN Len(s)
    ELSE (CHOOSE k \in 1 .. Len(s) :
            /\ ~is_hex_digit(s[k])
            /\ \A j \in 1 .. (k - 1) : is_hex_digit(s[j])) - 1

\* hex_digit0
hex_digit0(s) == Ok(Drop(s, HexPrefixLen(s)), Take(s, HexPrefixLen(s)))

\* Value of a text of hex digits, most significant first
RECURSIVE HexValue(_)
HexValue(s) ==
    IF Len(s) = 0 THEN 0
    ELSE 16 * HexValue(Take(s, Len(s) - 1)) + to_digit(s[Len(s)])

\* hex_u32: one to eight leading hex digits as a number
hex_u32(s) ==
    LET n == HexPrefixLen(s)
        m == IF n <= 8 THEN n ELSE 8
    IN  IF n = 0 THEN Err(ParsingError(s, "IsA"))
        ELSE Ok(Drop(s, m), HexValue(Take(s, m)))

-----------------------------------------------------------------------------
(* The parser's own helpers *)

ChecksumModes == {"Required", "Optional"}
LineEndingModes == {"Required", "Forbidden"}

\* consumed(f, e), given the result r of f: the rest of the input must be
\* empty, else error e
consumed(r, e) ==
    IF ~r.ok THEN r
    ELSE IF Len(r.rem) = 0 THEN r
    ELSE Err(ParsingError(r.rem, e))

\* crlf that in Required mode does not look at what follows the first CRLF
crlf_anywhere(mode, s) ==
    LET found == take_until(CRLF, s)
    IN  IF mode = "Required"
        THEN IF found.ok
             THEN Ok(found.out, <<>>)
             ELSE Err(ParsingError(s, "CrLf"))
        ELSE IF found.ok
             THEN Err(ParsingError(found.rem, "CrLf"))
             ELSE Ok(s, <<>>)

\* crlf(mode): on success the "remaining input" is the text to hand on
crlf(mode, s) ==
    LET found == take_until(CRLF, s)
    IN  IF mode = "Required"
        THEN IF found.ok
             THEN LET t == consumed(tag(CRLF, found.rem), "CrLf")
                  IN  IF t.ok THEN Ok(found.out, <<>>) ELSE t
             ELSE Err(ParsingError(s, "CrLf"))
        ELSE IF found.ok
             THEN Err(ParsingError(found.rem, "CrLf"))
             ELSE Ok(s, <<>>)

\* checksum_field with the '*' optional whatever the mode
checksum_field_lenient(ccm, s) ==
    LET star == char_p(STAR, s)
    IN  IF star.ok
        THEN LET t == consumed(take(2, star.rem), "Count")
             IN  IF ~t.ok THEN t
                 ELSE LET h == consumed(hex_digit0(t.out), "IsA")
                      IN  IF ~h.ok THEN h
                          ELSE LET v == hex_u32(h.out)
                               IN  IF ~v.ok THEN v
                                   ELSE Ok(v.rem, Some(v.out % 256))
        ELSE IF Len(s) # 0 THEN Err(ParsingError(s, "Count"))
        ELSE Ok(s, None)

\* The part of checksum_crlf after the line-ending policy: s is what crlf
\* handed on
checksum_field(ccm, s) ==
    LET star == char_p(STAR, s)
    IN  IF ccm = "Required" /\ ~star.ok THEN star
        ELSE IF star.ok
        THEN LET t == consumed(take(2, star.rem), "Count")
             IN  IF ~t.ok THEN t
                 ELSE LET h == consumed(hex_digit0(t.out), "IsA")
                      IN  IF ~h.ok THEN h
                          ELSE LET v == hex_u32(h.out)
                               IN  IF ~v.ok THEN v
                                   ELSE Ok(v.rem, Some(v.out % 256))
        ELSE IF Len(s) # 0 THEN Err(ParsingError(s, "Count"))
        ELSE Ok(s, None)

\* checksum_crlf(cc, le)
checksum_crlf(ccm, le, s) ==
    LET l == crlf(le, s)
    IN  IF ~l.ok THEN l ELSE checksum_field(ccm, l.rem)

\* checksum: XOR of all bytes, folded from 0
RECURSIVE checksum(_)
checksum(s) ==
    IF Len(s) = 0 THEN 0
    ELSE Xor(checksum(Take(s, Len(s) - 1)), s[Len(s)])

\* One uppercase hex digit
UpperHexDigit(d) == IF d < 10 THEN 48 + d ELSE 55 + d

\* format_checksum in lowercase: format!("{checksum:02x}")
format_checksum_lower(c) ==
    LET digit(d) == IF d < 10 THEN 48 + d ELSE 87 + d
    IN  <<digit(c \div 16), digit(c % 16)>>

\* format_checksum without the zero padding: format!("{checksum:X}")
format_checksum_unpadded(c) ==
    IF c < 16 THEN <<UpperHexDigit(c)>>
    ELSE <<UpperHexDigit(c \div 16), UpperHexDigit(c % 16)>>

\* format_checksum: format!("{checksum:02X}")
format_checksum(c) ==
    IF c < 16 THEN <<48, UpperHexDigit(c)>>
    ELSE <<UpperHexDigit(c \div 16), UpperHexDigit(c % 16)>>

\* alt((take_until("*"), take_until("\r\n"), rest))
split_content(s) ==
    LET a == take_until(STAR, s)
        b == take_until(CRLF, s)
    IN  IF a.ok THEN a ELSE IF b.ok THEN b ELSE rest(s)

-----------------------------------------------------------------------------
(* Content parsers supplied by callers *)

ContentParsers == {"fields", "non_empty"}

\* input.split(','): the fields between commas
RECURSIVE split_fields(_)
split_fields(s) ==
    LET p == FindSubstring(s, <<44>>)
    IN  IF p = 0 THEN <<s>>
        ELSE <<Take(s, p - 1)>> \o split_fields(Drop(s, p))

\* "fields":    Ok(("", input.split(',').collect()))
\* "non_empty": Eof error on empty content, else Ok((i, ()))
content_parser(kind, s) ==
    IF kind = "fields" THEN Ok(<<>>, split_fields(s))
    ELSE IF Len(s) = 0 THEN Err(ParsingError(s, "Eof"))
    ELSE Ok(s, <<>>)

\* The closure body as one function of the captured configuration, the
\* content parser and the input: what a freshly built parser returns
fresh_parse(self, kind, inp) ==
    IF ~is_ascii(inp) THEN Err(NonAscii)
    ELSE LET d == char_p(DOLLAR, inp)
         IN  IF ~d.ok THEN d
             ELSE LET sp == split_content(d.rem)
                      t == checksum_crlf(self.checksum_mode,
                                         self.line_ending_mode, sp.rem)
                  IN  IF ~t.ok THEN t
                      ELSE IF t.out.some /\ t.out.v # checksum(sp.out)
                      THEN Err(ChecksumMismatch(checksum(sp.out), t.out.v))
                      ELSE content_parser(kind, sp.out)

-----------------------------------------------------------------------------
(* Inputs of the parse calls *)

MaxTail == 3
MaxContent == 2
MaxCalls == 2

\* All sequences over S of length at most n
SeqsUpTo(S, n) == UNION {[1 .. k -> S] : k \in 0 .. n}

\* Concatenation of a sequence of texts
RECURSIVE Concat(_)
Concat(ts) == IF Len(ts) = 0 THEN <<>> ELSE ts[1] \o Concat(Drop(ts, 1))

\* What may follow a content: '*', CRLF, the content's own checksum, another
\* checksum ("99"), one lowercase hex digit ('a'), a non-hex letter ('z') and
\* a byte outside ASCII
TailTokens(content) ==
    {STAR, CRLF, format_checksum(checksum(content)), <<57, 57>>, <<97>>,
     <<122>>, <<200>>}

Tails(content) == {Concat(ts) : ts \in SeqsUpTo(TailTokens(content), MaxTail)}

Heads == {<<>>, DOLLAR}
Contents == {<<>>, <<88>>}

GeneratedInputs ==
    UNION {{h \o c \o t : t \in Tails(c)} : <<h, c>> \in Heads \X Contents}

\* Contents of the fully framed sentences: 'X', 'J', ',', '*', CR, LF
FramedAlphabet == {88, 74, 44, 42, 13, 10}
FramedContents == SeqsUpTo(FramedAlphabet, MaxContent)

\* "$" + content + "*" + format_checksum(checksum(content)) + "\r\n"
Framed(content) ==
    DOLLAR \o content \o STAR \o format_checksum(checksum(content)) \o CRLF

FramedInputs == {Framed(c) : c \in FramedContents}

\* "$X*41"
In_X_41 == <<36, 88, 42, 52, 49>>
\* "$X*41\r\n"
In_X_41_crlf == <<36, 88, 42, 52, 49, 13, 10>>
\* "$X"
In_X == <<36, 88>>
\* "$X*58"
In_X_58 == <<36, 88, 42, 53, 56>>
\* "$X*58\r\n"
In_X_58_crlf == <<36, 88, 42, 53, 56, 13, 10>>
\* "$X*99\r\n"
In_X_99_crlf == <<36, 88, 42, 57, 57, 13, 10>>
\* "$GPGGA,123456,data*41\r\n"
In_GPGGA_41_crlf == <<36, 71, 80, 71, 71, 65, 44, 49, 50, 51, 52, 53, 54, 44, 100, 97, 116, 97, 42, 52, 49, 13, 10>>
\* "$\r\n"
In_crlf == <<36, 13, 10>>
\* "$GPGGA,data*6A\r\n"
In_data_6A_crlf == <<36, 71, 80, 71, 71, 65, 44, 100, 97, 116, 97, 42, 54, 65, 13, 10>>
\* "$GPGGA,data*6A"
In_data_6A == <<36, 71, 80, 71, 71, 65, 44, 100, 97, 116, 97, 42, 54, 65>>
\* "$GPGGA,data\r\n"
In_data_crlf == <<36, 71, 80, 71, 71, 65, 44, 100, 97, 116, 97, 13, 10>>
\* "$GPGGA,data"
In_data == <<36, 71, 80, 71, 71, 65, 44, 100, 97, 116, 97>>
\* "$GPGGA,data*99\r\n"
In_data_99_crlf == <<36, 71, 80, 71, 71, 65, 44, 100, 97, 116, 97, 42, 57, 57, 13, 10>>
\* "$GPGGA,data*99"
In_data_99 == <<36, 71, 80, 71, 71, 65, 44, 100, 97, 116, 97, 42, 57, 57>>
\* "$X\r\n*5F"
In_X_crlf_5F == <<36, 88, 13, 10, 42, 53, 70>>
\* "$X\r\n*5F\r\n"
In_X_crlf_5F_crlf == <<36, 88, 13, 10, 42, 53, 70, 13, 10>>
\* "$X*58\r\n" followed by the two bytes of U+00E9
In_X_58_crlf_nonascii == <<36, 88, 42, 53, 56, 13, 10, 195, 169>>
\* the two bytes of U+00E9 followed by "X*58\r\n"
In_nonascii_X_58_crlf == <<195, 169, 88, 42, 53, 56, 13, 10>>
\* "$J*4a\r\n"
In_J_4a_crlf == <<36, 74, 42, 52, 97, 13, 10>>
\* "$X*58\r\nX"
In_X_58_crlf_X == <<36, 88, 42, 53, 56, 13, 10, 88>>
\* "$X*58\r\n\r\n"
In_X_58_crlf_crlf == <<36, 88, 42, 53, 56, 13, 10, 13, 10>>
\* "$X*1z"
In_X_1z == <<36, 88, 42, 49, 122>>

ExampleInputs ==
    {In_X_41, In_X_41_crlf, In_X, In_X_58,
     In_X_58_crlf, In_X_99_crlf, In_GPGGA_41_crlf, In_crlf,
     In_data_6A_crlf, In_data_6A, In_data_crlf, In_data,
     In_data_99_crlf, In_data_99, In_X_crlf_5F, In_X_crlf_5F_crlf,
     In_X_58_crlf_nonascii, In_nonascii_X_58_crlf, In_J_4a_crlf, In_X_58_crlf_X,
     In_X_58_crlf_crlf, In_X_1z}

Inputs == GeneratedInputs \cup FramedInputs \cup ExampleInputs

-----------------------------------------------------------------------------
(* The builder and the parser it builds *)

Pending == Err([tag |-> "Pending"])

\* No stand-alone call is under way
NoArg == [mode |-> "none", le |-> "none", text |-> <<>>, c |-> 0]

\* Nmea0183ParserBuilder::new()
new == [checksum_mode |-> "Required", line_ending_mode |-> "Required"]

\* <Nmea0183ParserBuilder as Default>::default()
default == new

\* No setter has been called
Unset == [checksum_mode |-> "unset", line_ending_mode |-> "unset"]

Init ==
    /\ builder \in {new, default}
    /\ last_set = Unset
    /\ closure = [self |-> new, content_parser |-> "none"]
    /\ pc = "builder"
    /\ input = <<>>
    /\ i = <<>>
    /\ cc = <<>>
    /\ cc_i = <<>>
    /\ data = <<>>
    /\ declared = None
    /\ calc_cc = 0
    /\ result = Pending
    /\ stages = <<>>
    /\ content_calls = 0
    /\ calls = 0
    /\ fn = "none"
    /\ arg = NoArg
    /\ ret = <<>>

\* checksum_mode that starts from a new builder: Self { checksum_mode, ..Self::new() }
SetChecksumModeFromNew(mode) ==
    /\ pc = "builder"
    /\ builder' = [new EXCEPT !.checksum_mode = mode]
    /\ last_set' = [last_set EXCEPT !.checksum_mode = mode]
    /\ UNCHANGED <<closure, pc, input, i, cc, cc_i, data, declared, calc_cc,
                   result, stages, content_calls, calls, fnVars>>

\* Nmea0183ParserBuilder::checksum_mode(mode)
SetChecksumMode(mode) ==
    /\ pc = "builder"
    /\ builder' = [builder EXCEPT !.checksum_mode = mode]
    /\ last_set' = [last_set EXCEPT !.checksum_mode = mode]
    /\ UNCHANGED <<closure, pc, input, i, cc, cc_i, data, declared, calc_cc,
                   result, stages, content_calls, calls, fnVars>>

\* Nmea0183ParserBuilder::line_ending_mode(mode)
SetLineEndingMode(mode) ==
    /\ pc = "builder"
    /\ builder' = [builder EXCEPT !.line_ending_mode = mode]
    /\ last_set' = [last_set EXCEPT !.line_ending_mode = mode]
    /\ UNCHANGED <<closure, pc, input, i, cc, cc_i, data, declared, calc_cc,
                   result, stages, content_calls, calls, fnVars>>

\* Nmea0183ParserBuilder::build(content_parser): self and the content parser
\* move into the returned closure
Build(kind) ==
    /\ pc = "builder"
    /\ closure' = [self |-> builder, content_parser |-> kind]
    /\ pc' = "ready"
    /\ UNCHANGED <<builder, last_set, input, i, cc, cc_i, data, declared, calc_cc,
                   result, stages, content_calls, calls, fnVars>>

\* A call of the built parser on inp: every local of the closure body is
\* a fresh binding
Call(inp) ==
    /\ pc = "ready"
    /\ input' = inp
    /\ i' = <<>>
    /\ cc' = <<>>
    /\ cc_i' = <<>>
    /\ data' = <<>>
    /\ declared' = None
    /\ calc_cc' = 0
    /\ result' = Pending
    /\ stages' = <<>>
    /\ content_calls' = 0
    /\ pc' = "ascii"
    /\ calls' = IF calls < MaxCalls THEN calls + 1 ELSE calls
    /\ UNCHANGED <<builder, last_set, closure, fnVars>>

\* The caller has taken the result; the locals of the call are gone and the
\* parser can be called again
Finish ==
    /\ pc = "done"
    /\ input' = <<>>
    /\ i' = <<>>
    /\ cc' = <<>>
    /\ cc_i' = <<>>
    /\ data' = <<>>
    /\ declared' = None
    /\ calc_cc' = 0
    /\ result' = Pending
    /\ stages' = <<>>
    /\ content_calls' = 0
    /\ pc' = "ready"
    /\ UNCHANGED <<builder, last_set, closure, calls, fnVars>>

\* The call returns r
Return(r) ==
    /\ result' = r
    /\ pc' = "done"

\* if !i.as_bytes().is_ascii() { return Err(NonAscii) }
StageAscii ==
    /\ pc = "ascii"
    /\ stages' = Append(stages, "ascii")
    /\ IF ~is_ascii(input)
       THEN Return(Err(NonAscii))
       ELSE /\ pc' = "dollar"
            /\ UNCHANGED result
    /\ UNCHANGED <<builder, last_set, closure, input, i, cc, cc_i, data, declared,
                   calc_cc, content_calls, calls, fnVars>>

\* let (i, _) = char('$').parse(i)?;
StageDollar ==
    /\ pc = "dollar"
    /\ stages' = Append(stages, "dollar")
    /\ LET r == char_p(DOLLAR, input)
       IN  IF ~r.ok
           THEN Return(r) /\ UNCHANGED i
           ELSE /\ i' = r.rem
                /\ pc' = "split"
                /\ UNCHANGED result
    /\ UNCHANGED <<builder, last_set, closure, input, cc, cc_i, data, declared, calc_cc,
                   content_calls, calls, fnVars>>

\* let (cc, data) = alt((take_until("*"), take_until("\r\n"), rest)).parse(i)?;
StageSplit ==
    /\ pc = "split"
    /\ stages' = Append(stages, "split")
    /\ LET r == split_content(i)
       IN  /\ cc' = r.rem
           /\ data' = r.out
    /\ pc' = "crlf"
    /\ UNCHANGED <<builder, last_set, closure, input, i, cc_i, declared, calc_cc,
                   result, content_calls, calls, fnVars>>

\* StageCrlf with the line-ending error not returned: the checksum field is
\* looked at first
StageCrlfDeferred ==
    /\ pc = "crlf"
    /\ stages' = Append(stages, "crlf")
    /\ LET r == crlf(closure.self.line_ending_mode, cc)
       IN  cc_i' = IF r.ok THEN r.rem ELSE cc
    /\ pc' = "checksum"
    /\ UNCHANGED <<builder, last_set, closure, input, i, cc, data, declared, calc_cc,
                   result, content_calls, calls, fnVars>>

\* checksum_crlf, first half: let (i, _) = crlf(le).parse(i)?;
StageCrlf ==
    /\ pc = "crlf"
    /\ stages' = Append(stages, "crlf")
    /\ LET r == crlf(closure.self.line_ending_mode, cc)
       IN  IF ~r.ok
           THEN Return(r) /\ UNCHANGED cc_i
           ELSE /\ cc_i' = r.rem
                /\ pc' = "checksum"
                /\ UNCHANGED result
    /\ UNCHANGED <<builder, last_set, closure, input, i, cc, data, declared, calc_cc,
                   content_calls, calls, fnVars>>

\* checksum_crlf, second half: the '*' and the two hex digits
StageChecksum ==
    /\ pc = "checksum"
    /\ stages' = Append(stages, "checksum")
    /\ LET r == checksum_field(closure.self.checksum_mode, cc_i)
       IN  IF ~r.ok
           THEN Return(r) /\ UNCHANGED declared
           ELSE /\ declared' = r.out
                /\ pc' = "compare"
                /\ UNCHANGED result
    /\ UNCHANGED <<builder, last_set, closure, input, i, cc, cc_i, data, calc_cc,
                   content_calls, calls, fnVars>>

\* StageCompare with expected and found exchanged
StageCompareSwapped ==
    /\ pc = "compare"
    /\ stages' = Append(stages, "compare")
    /\ calc_cc' = checksum(data)
    /\ IF declared.some /\ declared.v # checksum(data)
       THEN Return(Err(ChecksumMismatch(declared.v, checksum(data))))
       ELSE /\ pc' = "content"
            /\ UNCHANGED result
    /\ UNCHANGED <<builder, last_set, closure, input, i, cc, cc_i, data, declared,
                   content_calls, calls, fnVars>>

\* let (data, calc_cc) = checksum(data); if let Some(cc) = cc && cc != calc_cc
StageCompare ==
    /\ pc = "compare"
    /\ stages' = Append(stages, "compare")
    /\ calc_cc' = checksum(data)
    /\ IF declared.some /\ declared.v # checksum(data)
       THEN Return(Err(ChecksumMismatch(checksum(data), declared.v)))
       ELSE /\ pc' = "content"
            /\ UNCHANGED result
    /\ UNCHANGED <<builder, last_set, closure, input, i, cc, cc_i, data, declared,
                   content_calls, calls, fnVars>>

\* StageContent with a parser that stops requiring the checksum once a
\* sentence has been accepted
StageContentRelaxing ==
    /\ pc = "content"
    /\ stages' = Append(stages, "content")
    /\ content_calls' = content_calls + 1
    /\ Return(content_parser(closure.content_parser, data))
    /\ closure' = IF content_parser(closure.content_parser, data).ok
                  THEN [closure EXCEPT !.self.checksum_mode = "Optional"]
                  ELSE closure
    /\ UNCHANGED <<builder, last_set, input, i, cc, cc_i, data, declared, calc_cc,
                   calls, fnVars>>

\* content_parser.parse(data)
StageContent ==
    /\ pc = "content"
    /\ stages' = Append(stages, "content")
    /\ content_calls' = content_calls + 1
    /\ Return(content_parser(closure.content_parser, data))
    /\ UNCHANGED <<builder, last_set, closure, input, i, cc, cc_i, data, declared,
                   calc_cc, calls, fnVars>>

Next ==
    \/ \E mode \in ChecksumModes : SetChecksumMode(mode)
    \/ \E mode \in LineEndingModes : SetLineEndingMode(mode)
    \/ \E kind \in ContentParsers : Build(kind)
    \/ pc = "ready" /\ \E inp \in Inputs : Call(inp)
    \/ Finish
    \/ StageAscii
    \/ StageDollar
    \/ StageSplit
    \/ StageCrlf
    \/ StageChecksum
    \/ StageCompare
    \/ StageContent

Spec == Init /\ [][Next]_vars

-----------------------------------------------------------------------------
(* Stand-alone calls of the public helpers crlf, checksum_crlf and         *)
(* format_checksum                                                         *)

MaxText == 4

\* Texts given to crlf: over '1', '*', CR and LF, and the texts of test_crlf
CrlfTexts ==
    SeqsUpTo({49, 42, 13, 10}, MaxText)
        \cup {<<49, 50, 51, 52, 53>> \o CRLF, <<49, 50, 51, 52, 53>>}

\* Texts given to checksum_crlf: every formatted checksum after a '*', with
\* and without CRLF, and what may follow a content "X"
ChecksumTexts ==
    {STAR \o format_checksum(c) \o e : c \in Byte, e \in {<<>>, CRLF}}
        \cup Tails(<<88>>)

InitFn ==
    /\ builder = new
    /\ last_set = Unset
    /\ closure = [self |-> new, content_parser |-> "none"]
    /\ pc = "builder"
    /\ input = <<>>
    /\ i = <<>>
    /\ cc = <<>>
    /\ cc_i = <<>>
    /\ data = <<>>
    /\ declared = None
    /\ calc_cc = 0
    /\ result = Pending
    /\ stages = <<>>
    /\ content_calls = 0
    /\ calls = 0
    /\ fn = "none"
    /\ arg = NoArg
    /\ ret = <<>>

\* crlf(mode).parse(text)
CallCrlf(mode, text) ==
    /\ fn = "none"
    /\ fn' = "crlf"
    /\ arg' = [NoArg EXCEPT !.le = mode, !.text = text]
    /\ ret' = crlf(mode, text)
    /\ UNCHANGED parseVars

\* checksum_crlf(mode, le).parse(text)
CallChecksumCrlf(mode, le, text) ==
    /\ fn = "none"
    /\ fn' = "checksum_crlf"
    /\ arg' = [NoArg EXCEPT !.mode = mode, !.le = le, !.text = text]
    /\ ret' = checksum_crlf(mode, le, text)
    /\ UNCHANGED parseVars

\* format_checksum(c)
CallFormatChecksum(c) ==
    /\ fn = "none"
    /\ fn' = "format_checksum"
    /\ arg' = [NoArg EXCEPT !.c = c]
    /\ ret' = format_checksum(c)
    /\ UNCHANGED parseVars

\* The caller has taken the returned value
FnReturn ==
    /\ fn # "none"
    /\ fn' = "none"
    /\ arg' = NoArg
    /\ ret' = <<>>
    /\ UNCHANGED parseVars

NextFn ==
    \/ fn = "none" /\ \E mode \in LineEndingModes, text \in CrlfTexts :
                          CallCrlf(mode, text)
    \/ fn = "none" /\ \E mode \in ChecksumModes, le \in LineEndingModes,
                          text \in ChecksumTexts :
                          CallChecksumCrlf(mode, le, text)
    \/ fn = "none" /\ \E c \in Byte : CallFormatChecksum(c)
    \/ FnReturn

SpecFn == InitFn /\ [][NextFn]_vars

-----------------------------------------------------------------------------
(* Field parsers of the NmeaParse trait (parse.rs, nmea_content/parse.rs): *)
(* u8, Option<T>, [T; N], Vec<T> and heapless::Vec<T, N>.  An element type *)
(* T is "u8" or "Option<u8>"; arrays and vectors are returned as sequences. *)

COMMA == <<44>>

\* u8::MAX
U8_MAX == 255

\* A panic of the call (index out of bounds, collect() past the capacity)
Panic(msg) == Err([tag |-> "Panic", msg |-> msg])

\* nom::character::complete::u8: decimal digits up to the first other byte;
\* no digit at all, or a value past u8::MAX, is an error of kind Digit
RECURSIVE u8_scan(_, _, _)
u8_scan(s, pos, value) ==
    IF pos > Len(s) THEN Ok(<<>>, value)
    ELSE IF s[pos] \notin 48 .. 57
         THEN IF pos = 1 THEN Err(ParsingError(s, "Digit"))
              ELSE Ok(Drop(s, pos - 1), value)
         ELSE IF value * 10 + (s[pos] - 48) > U8_MAX
              THEN Err(ParsingError(s, "Digit"))
              ELSE u8_scan(s, pos + 1, value * 10 + (s[pos] - 48))

u8_parse(s) ==
    IF Len(s) = 0 THEN Err(ParsingError(s, "Digit")) ELSE u8_scan(s, 1, 0)

\* NmeaParse::parse_preceded, the default: preceded(separator, Self::parse)
u8_parse_preceded(s) ==
    LET sep == char_p(COMMA, s)
    IN  IF ~sep.ok THEN sep ELSE u8_parse(sep.rem)

\* <Option<T> as NmeaParse>::parse: opt(T::parse)
option_parse(s) ==
    LET r == u8_parse(s)
    IN  IF r.ok THEN Ok(r.rem, Some(r.out)) ELSE Ok(s, None)

\* Option<T>::parse_preceded that gives None whenever T::parse fails
option_parse_preceded_any(s) ==
    LET sep == char_p(COMMA, s)
    IN  IF ~sep.ok THEN sep
        ELSE LET r == u8_parse(sep.rem)
             IN  IF r.ok THEN Ok(r.rem, Some(r.out)) ELSE Ok(sep.rem, None)

\* <Option<T> as NmeaParse>::parse_preceded(char(','))
option_parse_preceded(s) ==
    LET sep == char_p(COMMA, s)
    IN  IF ~sep.ok THEN sep
        ELSE LET r == u8_parse(sep.rem)
             IN  IF r.ok THEN Ok(r.rem, Some(r.out))
                 ELSE IF char_p(COMMA, sep.rem).ok THEN Ok(sep.rem, None)
                 ELSE IF Len(sep.rem) = 0 THEN Ok(sep.rem, None)
                 ELSE Err(ParsingError(s, "Verify"))

ElemTypes == {"u8", "Option<u8>"}

\* T::parse and T::parse_preceded(char(',')) for the element type T
T_parse(T, s) == IF T = "u8" THEN u8_parse(s) ELSE option_parse(s)

T_parse_preceded(T, s) ==
    IF T = "u8" THEN u8_parse_preceded(s) ELSE option_parse_preceded(s)

\* preceded(char(','), T::parse): the separator, then T::parse, whatever T
preceded_T_parse(T, s) ==
    LET sep == char_p(COMMA, s)
    IN  IF ~sep.ok THEN sep ELSE T_parse(T, sep.rem)

\* <[T; N] as NmeaParse>::parse, the loop over elems[1..]
RECURSIVE array_rest(_, _, _, _)
array_rest(T, N, s, elems) ==
    IF Len(elems) >= N THEN Ok(s, elems)
    ELSE LET r == preceded_T_parse(T, s)
         IN  IF r.ok THEN array_rest(T, N, r.rem, Append(elems, r.out))
             ELSE Err(ParsingError(s, "Count"))

\* [T; N]::parse that gives up the later elements it cannot parse
array_parse_short(T, N, s) ==
    LET first == T_parse(T, s)
    IN  IF ~first.ok THEN Err(ParsingError(s, "Count"))
        ELSE IF N = 0 THEN Panic("index out of bounds")
        ELSE LET r == preceded_T_parse(T, first.rem)
             IN  IF N = 1 \/ ~r.ok THEN Ok(first.rem, <<first.out>>)
                 ELSE array_rest(T, N, r.rem, <<first.out, r.out>>)

\* <[T; N] as NmeaParse>::parse
array_parse(T, N, s) ==
    LET first == T_parse(T, s)
    IN  IF ~first.ok THEN Err(ParsingError(s, "Count"))
        ELSE IF N = 0 THEN Panic("index out of bounds")
        ELSE array_rest(T, N, first.rem, <<first.out>>)

\* <[T; N] as NmeaParse>::parse_preceded(char(',')): every element, the first
\* included, through T::parse_preceded
RECURSIVE array_preceded_rest(_, _, _, _)
array_preceded_rest(T, N, s, elems) ==
    IF Len(elems) >= N THEN Ok(s, elems)
    ELSE LET r == T_parse_preceded(T, s)
         IN  IF r.ok THEN array_preceded_rest(T, N, r.rem, Append(elems, r.out))
             ELSE Err(ParsingError(s, "Count"))

array_parse_preceded(T, N, s) == array_preceded_rest(T, N, s, <<>>)

\* <Vec<T> as NmeaParse>::parse, the loop
RECURSIVE vec_loop(_, _, _)
vec_loop(T, s, elems) ==
    LET r == T_parse_preceded(T, s)
    IN  IF ~r.ok THEN Ok(s, elems)
        ELSE IF Len(r.rem) = Len(s) THEN Err(ParsingError(s, "Many0"))
        ELSE vec_loop(T, r.rem, Append(elems, r.out))

\* <Vec<T> as NmeaParse>::parse
vec_parse(T, s) ==
    LET first == T_parse(T, s)
    IN  IF ~first.ok THEN Ok(s, <<>>)
        ELSE IF Len(first.rem) = Len(s) THEN Err(ParsingError(s, "Many0"))
        ELSE vec_loop(T, first.rem, <<first.out>>)

\* <Vec<T> as NmeaParse>::parse_preceded(char(',')):
\* many0(T::parse_preceded(separator))
vec_parse_preceded(T, s) == vec_loop(T, s, <<>>)

\* elems.into_iter().collect() into a heapless::Vec<T, N>
collect(N, s, elems) ==
    IF Len(elems) > N THEN Panic("Vec::from_iter overflow") ELSE Ok(s, elems)

\* <heapless::Vec<T, N> as NmeaParse>::parse, the loop
RECURSIVE heapless_loop(_, _, _, _)
heapless_loop(T, N, s, elems) ==
    IF Len(elems) = N THEN collect(N, s, elems)
    ELSE LET r == T_parse_preceded(T, s)
         IN  IF ~r.ok THEN collect(N, s, elems)
             ELSE IF Len(r.rem) = Len(s) THEN Err(ParsingError(s, "Many0"))
             ELSE heapless_loop(T, N, r.rem, Append(elems, r.out))

\* <heapless::Vec<T, N> as NmeaParse>::parse
heapless_parse(T, N, s) ==
    LET first == T_parse(T, s)
    IN  IF ~first.ok THEN collect(N, s, <<>>)
        ELSE IF Len(first.rem) = Len(s) THEN Err(ParsingError(s, "Many0"))
        ELSE heapless_loop(T, N, first.rem, <<first.out>>)

\* Field texts: up to MaxField bytes of ',', '2', '5', 'x', and the texts of
\* the crate's examples and tests
MaxField == 5
MaxN == 3
FieldAlphabet == {44, 50, 53, 120}
Tx_cc4 == <<44, 44, 52>>
Tx_12 == <<49, 44, 50>>
Tx_123 == <<49, 44, 50, 44, 51>>
Tx_12c4 == <<49, 44, 50, 44, 44, 52>>
Tx_c12c4 == <<44, 49, 44, 50, 44, 44, 52>>
Tx_c42 == <<44, 52, 50>>
Tx_300 == <<44, 51, 48, 48>>
FieldTexts ==
    SeqsUpTo(FieldAlphabet, MaxField)
        \cup {Tx_cc4, Tx_12, Tx_123, Tx_12c4, Tx_c12c4, Tx_c42, Tx_300}

\* Option::<u8>::parse_preceded(char(',')).parse(text)
CallOptionParsePreceded(text) ==
    /\ fn = "none"
    /\ fn' = "Option::parse_preceded"
    /\ arg' = [NoArg EXCEPT !.text = text]
    /\ ret' = option_parse_preceded(text)
    /\ UNCHANGED parseVars

\* Two Option<u8> fields one after the other: the second is parsed on what
\* the first left
CallOptionParsePrecededTwice(text) ==
    /\ fn = "none"
    /\ fn' = "Option::parse_preceded x2"
    /\ arg' = [NoArg EXCEPT !.text = text]
    /\ ret' = LET a == option_parse_preceded(text)
              IN  IF ~a.ok THEN a
                  ELSE LET b == option_parse_preceded(a.rem)
                       IN  IF ~b.ok THEN b ELSE Ok(b.rem, <<a.out, b.out>>)
    /\ UNCHANGED parseVars

\* <[T; N]>::parse(text)
CallArrayParse(T, N, text) ==
    /\ fn = "none"
    /\ fn' = "[T; N]::parse"
    /\ arg' = [mode |-> "none", le |-> "none", text |-> text, c |-> 0,
               T |-> T, N |-> N]
    /\ ret' = array_parse(T, N, text)
    /\ UNCHANGED parseVars

\* <[T; N]>::parse_preceded(char(',')).parse(text)
CallArrayParsePreceded(T, N, text) ==
    /\ fn = "none"
    /\ fn' = "[T; N]::parse_preceded"
    /\ arg' = [mode |-> "none", le |-> "none", text |-> text, c |-> 0,
               T |-> T, N |-> N]
    /\ ret' = array_parse_preceded(T, N, text)
    /\ UNCHANGED parseVars

\* Vec::<T>::parse(text)
CallVecParse(T, text) ==
    /\ fn = "none"
    /\ fn' = "Vec::parse"
    /\ arg' = [mode |-> "none", le |-> "none", text |-> text, c |-> 0,
               T |-> T]
    /\ ret' = vec_parse(T, text)
    /\ UNCHANGED parseVars

\* Vec::<T>::parse_preceded(char(',')).parse(text)
CallVecParsePreceded(T, text) ==
    /\ fn = "none"
    /\ fn' = "Vec::parse_preceded"
    /\ arg' = [mode |-> "none", le |-> "none", text |-> text, c |-> 0,
               T |-> T]
    /\ ret' = vec_parse_preceded(T, text)
    /\ UNCHANGED parseVars

\* heapless::Vec::<T, N>::parse(text)
CallHeaplessParse(T, N, text) ==
    /\ fn = "none"
    /\ fn' = "heapless::Vec::parse"
    /\ arg' = [mode |-> "none", le |-> "none", text |-> text, c |-> 0,
               T |-> T, N |-> N]
    /\ ret' = heapless_parse(T, N, text)
    /\ UNCHANGED parseVars

NextField ==
    \/ fn = "none" /\ \E text \in FieldTexts : CallOptionParsePreceded(text)
    \/ fn = "none" /\ \E text \in FieldTexts : CallOptionParsePrecededTwice(text)
    \/ fn = "none" /\ \E T \in ElemTypes, N \in 0 .. MaxN, text \in FieldTexts :
                          CallArrayParse(T, N, text)
    \/ fn = "none" /\ \E T \in ElemTypes, N \in 0 .. MaxN, text \in FieldTexts :
                          CallArrayParsePreceded(T, N, text)
    \/ fn = "none" /\ \E T \in ElemTypes, text \in FieldTexts :
                          CallVecParse(T, text)
    \/ fn = "none" /\ \E T \in ElemTypes, text \in FieldTexts :
                          CallVecParsePreceded(T, text)
    \/ fn = "none" /\ \E T \in ElemTypes, N \in 0 .. MaxN, text \in FieldTexts :
                          CallHeaplessParse(T, N, text)
    \/ FnReturn

SpecField == InitFn /\ [][NextField]_vars

-----------------------------------------------------------------------------
(* The derive macro (nmea0183-derive): the directives of #[nmea(...)], the  *)
(* parser generated for a struct and the parser generated for an enum.     *)
(* A directive list is the sequence of its directive kinds; a field is     *)
(* [ty, attrs]; a variant is [selector, fields] with selector "_" or a u8  *)
(* literal; the selector parser of an enum is u8::parse.                   *)

MetaAttributeType ==
    {"cond", "exact", "ignore", "into", "map", "parse_as", "parser",
     "pre_exec", "post_exec", "selector", "selection_error", "separator",
     "skip_after", "skip_before"}

\* MetaAttributeType::allowed_multiple
allowed_multiple(t) == t \in {"cond", "map", "pre_exec", "post_exec"}

\* MetaAttribute::is_top_level
is_top_level(t) ==
    t \in {"exact", "pre_exec", "post_exec", "selector", "selection_error",
           "separator", "skip_after", "skip_before"}

\* is_field_level as the complement of is_top_level
is_field_level_only(t) == ~is_top_level(t)

\* MetaAttribute::is_field_level
is_field_level(t) == t \notin {"exact", "separator", "selection_error"}

\* syn::Error::new(span, message)
SynError(msg, t) == Err([tag |-> "syn::Error", msg |-> msg, attr |-> t])

\* parse_top_level_attributes: the .map(...) closure over the directives in
\* order, collected into a Result (the first error wins)
RECURSIVE top_level_walk(_, _, _)
top_level_walk(attrs, k, attributes_set) ==
    IF k > Len(attrs) THEN Ok(<<>>, attrs)
    ELSE IF ~is_top_level(attrs[k])
         THEN SynError("is not allowed at the top level", attrs[k])
    ELSE IF attrs[k] \in attributes_set
         THEN SynError("Duplicate nmea attribute", attrs[k])
    ELSE top_level_walk(attrs, k + 1, attributes_set \cup {attrs[k]})

parse_top_level_attributes(attrs) == top_level_walk(attrs, 1, {})

\* parse_field_level_attributes that refuses parse_as after parser only
RECURSIVE field_level_walk_one_order(_, _, _)
field_level_walk_one_order(attrs, k, attributes_set) ==
    IF k > Len(attrs) THEN Ok(<<>>, attrs)
    ELSE LET t == attrs[k]
             set1 == IF allowed_multiple(t) THEN attributes_set
                     ELSE attributes_set \cup {t}
         IN  IF ~is_field_level(t)
             THEN SynError("is not allowed at the field level", t)
             ELSE IF ~allowed_multiple(t) /\ t \in attributes_set
             THEN SynError("Duplicate nmea attribute", t)
             ELSE IF t = "parse_as" /\ "parser" \in set1
             THEN SynError("parse_as cannot be used with parser", t)
             ELSE field_level_walk_one_order(attrs, k + 1, set1)

parse_field_level_one_order(attrs) == field_level_walk_one_order(attrs, 1, {})

\* parse_field_level_attributes: the same walk with allowed_multiple and the
\* parse_as / parser exclusion
RECURSIVE field_level_walk(_, _, _)
field_level_walk(attrs, k, attributes_set) ==
    IF k > Len(attrs) THEN Ok(<<>>, attrs)
    ELSE LET t == attrs[k]
             set1 == IF allowed_multiple(t) THEN attributes_set
                     ELSE attributes_set \cup {t}
         IN  IF ~is_field_level(t)
             THEN SynError("is not allowed at the field level", t)
             ELSE IF ~allowed_multiple(t) /\ t \in attributes_set
             THEN SynError("Duplicate nmea attribute", t)
             ELSE IF t = "parse_as" /\ "parser" \in set1
             THEN SynError("parse_as cannot be used with parser", t)
             ELSE IF t = "parser" /\ "parse_as" \in set1
             THEN SynError("parser cannot be used with parse_as", t)
             ELSE field_level_walk(attrs, k + 1, set1)

parse_field_level_attributes(attrs) == field_level_walk(attrs, 1, {})

\* <#ty>::default(), the value of an ignored field
default_value(ty) == IF ty = "u8" THEN 0 ELSE None

\* The arguments written in the directives of the shapes of this model:
\* parser(u8::parse), parse_as(Option<u8>), cond(true), map(f) and into with
\* f and From marked on the value, skip_before(1), skip_after(1), and
\* pre_exec / post_exec statements that leave nmea_input alone.
parse_as_type == "Option<u8>"

\* The Parser enum: Raw(tokens), Type { ty, separator }, and Cond / Into /
\* Map around an inner Parser
Raw(tokens) == [kind |-> "Raw", tokens |-> tokens]
RawSuccess(ty) == [kind |-> "Raw", tokens |-> "success(default)", ty |-> ty]
TypeParser(ty, separator) == [kind |-> "Type", ty |-> ty, separator |-> separator]
Around(kind, parser) == [kind |-> kind, parser |-> parser]

\* StructParser::get_innermost_type_parser(ty, "Option", "cond")
get_innermost_type_parser(ty) == IF ty = "Option<u8>" THEN "u8" ELSE ty

\* get_parser where cond keeps the field's type
RECURSIVE get_parser_cond_same_type(_, _, _, _)
get_parser_cond_same_type(ty, attributes, k, separator) ==
    IF k > Len(attributes) THEN TypeParser(ty, separator)
    ELSE LET t == attributes[k]
         IN  IF t = "parser"
             THEN Raw(IF separator THEN "preceded(separator, parser)" ELSE "parser")
             ELSE IF t = "parse_as"
             THEN get_parser_cond_same_type(parse_as_type, attributes, k + 1, separator)
             ELSE IF t = "ignore" THEN RawSuccess(ty)
             ELSE IF t = "cond"
             THEN Around("Cond", get_parser_cond_same_type(ty, attributes, k + 1,
                                                           separator))
             ELSE IF t = "into"
             THEN Around("Into", get_parser_cond_same_type(ty, attributes, k + 1,
                                                           separator))
             ELSE IF t = "map"
             THEN Around("Map", get_parser_cond_same_type(ty, attributes, k + 1,
                                                          separator))
             ELSE get_parser_cond_same_type(ty, attributes, k + 1, separator)

get_parser_same_type(ty, attributes, separator) ==
    get_parser_cond_same_type(ty, attributes, 1, separator)

\* StructParser::get_parser: while let Some((attribute, rest)) =
\* attributes.split_first(), with the directives from position k on
RECURSIVE get_parser_walk(_, _, _, _)
get_parser_walk(ty, attributes, k, separator) ==
    IF k > Len(attributes) THEN TypeParser(ty, separator)
    ELSE LET t == attributes[k]
         IN  IF t = "parser"
             THEN Raw(IF separator THEN "preceded(separator, parser)" ELSE "parser")
             ELSE IF t = "parse_as"
             THEN get_parser_walk(parse_as_type, attributes, k + 1, separator)
             ELSE IF t = "ignore" THEN RawSuccess(ty)
             ELSE IF t = "cond"
             THEN Around("Cond", get_parser_walk(get_innermost_type_parser(ty),
                                                 attributes, k + 1, separator))
             ELSE IF t = "into"
             THEN Around("Into", get_parser_walk(ty, attributes, k + 1, separator))
             ELSE IF t = "map"
             THEN Around("Map", get_parser_walk(ty, attributes, k + 1, separator))
             ELSE get_parser_walk(ty, attributes, k + 1, separator)

get_parser(ty, attributes, separator) ==
    get_parser_walk(ty, attributes, 1, separator)

\* impl ToTokens for Parser, run on s: nom cond(true, p), into(p), map(p, f),
\* the Raw tokens, <ty>::parse_preceded(separator) or <ty>::parse
RECURSIVE parser_parse(_, _)
parser_parse(p, s) ==
    IF p.kind = "Type"
    THEN IF p.separator THEN T_parse_preceded(p.ty, s) ELSE T_parse(p.ty, s)
    ELSE IF p.kind = "Raw"
    THEN IF p.tokens = "success(default)" THEN Ok(s, default_value(p.ty))
         ELSE IF p.tokens = "parser" THEN u8_parse(s)
         ELSE LET sep == char_p(COMMA, s)
              IN  IF ~sep.ok THEN sep ELSE u8_parse(sep.rem)
    ELSE LET r == parser_parse(p.parser, s)
         IN  IF ~r.ok THEN r
             ELSE IF p.kind = "Cond" THEN Ok(r.rem, Some(r.out))
             ELSE IF p.kind = "Into" THEN Ok(r.rem, [into |-> r.out])
             ELSE Ok(r.rem, [map |-> r.out])

\* pre_post_exec: the statements put before and after, in directive order
RECURSIVE pre_post_walk(_, _, _, _)
pre_post_walk(attributes, k, pre_exec, post_exec) ==
    IF k > Len(attributes) THEN [pre_exec |-> pre_exec, post_exec |-> post_exec]
    ELSE LET t == attributes[k]
         IN  IF t = "exact"
             THEN pre_post_walk(attributes, k + 1, pre_exec,
                                Append(post_exec, "get_error_if"))
             ELSE IF t = "pre_exec"
             THEN pre_post_walk(attributes, k + 1, Append(pre_exec, "statement"),
                                post_exec)
             ELSE IF t = "post_exec"
             THEN pre_post_walk(attributes, k + 1, pre_exec,
                                Append(post_exec, "statement"))
             ELSE IF t = "skip_before"
             THEN pre_post_walk(attributes, k + 1, Append(pre_exec, "take"),
                                post_exec)
             ELSE IF t = "skip_after"
             THEN pre_post_walk(attributes, k + 1, pre_exec,
                                Append(post_exec, "take"))
             ELSE pre_post_walk(attributes, k + 1, pre_exec, post_exec)

pre_post_exec(attributes) == pre_post_walk(attributes, 1, <<>>, <<>>)

\* The statements of a pre_exec or post_exec run on nmea_input:
\* get_error_if(!nmea_input.is_empty()), nom::bytes::streaming::take(1), or
\* a statement of the user
RECURSIVE run_exec(_, _, _)
run_exec(exec, k, nmea_input) ==
    IF k > Len(exec) THEN Ok(nmea_input, <<>>)
    ELSE IF exec[k] = "get_error_if"
    THEN IF nmea_input # <<>> THEN Err(ParsingError(nmea_input, "Verify"))
         ELSE run_exec(exec, k + 1, nmea_input)
    ELSE IF exec[k] = "take"
    THEN IF Len(nmea_input) < 1 THEN Err([tag |-> "Incomplete"])
         ELSE run_exec(exec, k + 1, Tail(nmea_input))
    ELSE run_exec(exec, k + 1, nmea_input)

\* One FieldParser: the parser, the field's pre_exec and post_exec, and what
\* from_fields decided about it
FieldParser(field, ignore, separator) ==
    [ty |-> field.ty, ignore |-> ignore, separator |-> separator,
     parser |-> get_parser(field.ty, field.attrs, separator),
     pre_exec |-> pre_post_exec(field.attrs).pre_exec,
     post_exec |-> pre_post_exec(field.attrs).post_exec]

\* StructParser::from_fields(fields, config, preceded): one FieldParser per
\* field, with the separator it is preceded by (if any)
RECURSIVE from_fields_walk(_, _, _, _)
from_fields_walk(fields, k, first_field, parsers) ==
    IF k > Len(fields) THEN Ok(<<>>, parsers)
    ELSE LET attributes == parse_field_level_attributes(fields[k].attrs)
             ignore == \E j \in 1 .. Len(fields[k].attrs) :
                           fields[k].attrs[j] = "ignore"
             separator == ~first_field /\ ~ignore
         IN  IF ~attributes.ok THEN attributes
             ELSE from_fields_walk(fields, k + 1,
                      IF first_field /\ ~ignore THEN FALSE ELSE first_field,
                      Append(parsers, FieldParser(fields[k], ignore, separator)))

\* from_fields where only the field at index 0 can go without separator
RECURSIVE from_fields_by_index(_, _, _, _)
from_fields_by_index(fields, k, preceded, parsers) ==
    IF k > Len(fields) THEN Ok(<<>>, parsers)
    ELSE LET attributes == parse_field_level_attributes(fields[k].attrs)
             ignore == \E j \in 1 .. Len(fields[k].attrs) :
                           fields[k].attrs[j] = "ignore"
             separator == (preceded \/ k > 1) /\ ~ignore
         IN  IF ~attributes.ok THEN attributes
             ELSE from_fields_by_index(fields, k + 1, preceded,
                      Append(parsers, FieldParser(fields[k], ignore, separator)))

from_fields_index0(fields, preceded) ==
    from_fields_by_index(fields, 1, preceded, <<>>)

from_fields(fields, preceded) == from_fields_walk(fields, 1, ~preceded, <<>>)

\* The parser of one field, #parser.parse(nmea_input)
field_parse(p, s) == parser_parse(p.parser, s)

\* <Struct as Generator>::generate_parse_body, run on nmea_input:
\* #field_pre_exec let (nmea_input, field) = parser.parse(nmea_input)?;
\* #field_post_exec for each field
RECURSIVE struct_body(_, _, _, _)
struct_body(parsers, k, nmea_input, values) ==
    IF k > Len(parsers) THEN Ok(nmea_input, values)
    ELSE LET pre == run_exec(parsers[k].pre_exec, 1, nmea_input)
             r == field_parse(parsers[k], pre.rem)
             post == run_exec(parsers[k].post_exec, 1, r.rem)
         IN  IF ~pre.ok THEN pre
             ELSE IF ~r.ok THEN r
             ELSE IF ~post.ok THEN post
             ELSE struct_body(parsers, k + 1, post.rem, Append(values, r.out))

\* What a derive yields: a compile error, or the generated parser's plan and
\* what it returns on the text
NotBuilt(e) == [built |-> FALSE, error |-> e.err]
Built(plan, arm, r) == [built |-> TRUE, plan |-> plan, arm |-> arm, result |-> r]

\* #[derive(NmeaParse)] on a struct, then <the struct>::parse(text)
struct_parse(fields, text) ==
    LET sp == from_fields(fields, FALSE)
    IN  IF ~sp.ok THEN NotBuilt(sp)
        ELSE Built(sp.out, 0, struct_body(sp.out, 1, text, <<>>))

\* The selector pattern of a variant: #[nmea(selector(_))] or
\* #[nmea(selector(<literal>))]
Wildcard == [pat |-> "_"]
Literal(v) == [pat |-> "literal", v |-> v]

\* Enum::generate_variants: the position of the default case
default_position(variants) ==
    CHOOSE k \in 1 .. Len(variants) :
        /\ variants[k].selector = Wildcard
        /\ \A j \in 1 .. k - 1 : variants[j].selector # Wildcard

default_case_handled(variants) ==
    \E k \in 1 .. Len(variants) : variants[k].selector = Wildcard

\* generate_variants that accepts a default case at any position
generate_variants_unordered(variants) == Ok(<<>>, default_case_handled(variants))

generate_variants(variants) ==
    IF default_case_handled(variants)
           /\ default_position(variants) # Len(variants)
    THEN SynError("Default case must be the last entry in the enum", "selector")
    ELSE Ok(<<>>, default_case_handled(variants))

\* VariantParser::from_variant for every variant, collected into a Result
RECURSIVE variant_parsers(_, _, _)
variant_parsers(variants, k, acc) ==
    IF k > Len(variants) THEN Ok(<<>>, acc)
    ELSE LET sp == from_fields(variants[k].fields, TRUE)
         IN  IF ~sp.ok THEN sp
             ELSE variant_parsers(variants, k + 1, Append(acc, sp.out))

\* A match arm matches by its pattern: "_" or a literal
arm_matches(selector, v) == selector = Wildcard \/ selector = Literal(v)

\* match nmea_selector { arms in declaration order, default_case } with the
\* default case taken by the last arm
match_last_arm(variants, v) ==
    IF \E k \in 1 .. Len(variants) : arm_matches(variants[k].selector, v)
    THEN CHOOSE k \in 1 .. Len(variants) :
             /\ arm_matches(variants[k].selector, v)
             /\ \A j \in k + 1 .. Len(variants) :
                    ~arm_matches(variants[j].selector, v)
    ELSE 0

\* match nmea_selector { arms in declaration order, default_case }: the index
\* of the first arm that matches, 0 for the generated default case
match_arm(variants, v) ==
    IF \E k \in 1 .. Len(variants) : arm_matches(variants[k].selector, v)
    THEN CHOOSE k \in 1 .. Len(variants) :
             /\ arm_matches(variants[k].selector, v)
             /\ \A j \in 1 .. k - 1 : ~arm_matches(variants[j].selector, v)
    ELSE 0

\* #[derive(NmeaParse)] #[nmea(selector(u8::parse))] on an enum, with or
\* without selection_error, then <the enum>::parse(text)
enum_parse(variants, selection_error, text) ==
    LET vps == variant_parsers(variants, 1, <<>>)
        gv == generate_variants(variants)
    IN  IF ~vps.ok THEN NotBuilt(vps)
        ELSE IF ~gv.ok THEN NotBuilt(gv)
        ELSE LET sel == u8_parse(text)
                 arm == IF sel.ok THEN match_arm(variants, sel.out) ELSE 0
             IN  IF ~sel.ok THEN Built(vps.out, 0, sel)
                 ELSE IF arm # 0
                 THEN Built(vps.out, arm,
                            struct_body(vps.out[arm], 1, sel.rem, <<>>))
                 ELSE IF selection_error
                 THEN Built(vps.out, 0, Err([tag |-> "selection_error"]))
                 ELSE Built(vps.out, 0, Err(ParsingError(sel.rem, "Switch")))

\* attributes.iter().any(|attr| attr.type == t)
has_attribute(attributes, t) ==
    \E k \in 1 .. Len(attributes) : attributes[k] = t

\* Config::from_meta_attributes
from_meta_attributes(attribute_list) ==
    [selector_parser |-> has_attribute(attribute_list, "selector"),
     selection_error |-> has_attribute(attribute_list, "selection_error"),
     separator |-> IF has_attribute(attribute_list, "separator")
                   THEN "separator argument" ELSE "char(',')"]

\* Struct::from_datastruct: the first selector, selection_error or separator
\* directive of the struct is an error
unsupported_on_struct(attributes) ==
    \E k \in 1 .. Len(attributes) :
        attributes[k] \in {"selector", "selection_error", "separator"}

first_unsupported_on_struct(attributes) ==
    attributes[CHOOSE k \in 1 .. Len(attributes) :
                   /\ attributes[k] \in {"selector", "selection_error", "separator"}
                   /\ \A j \in 1 .. k - 1 :
                          attributes[j] \notin {"selector", "selection_error",
                                                "separator"}]

\* Struct::from_datastruct that lets a separator directive through
from_datastruct_any_separator(attrs, fields) ==
    LET attributes == parse_top_level_attributes(attrs)
        struct_parser == from_fields(fields, FALSE)
    IN  IF ~attributes.ok THEN attributes
        ELSE IF has_attribute(attrs, "selector")
                    \/ has_attribute(attrs, "selection_error")
        THEN SynError("Structs do not support this attribute", "selector")
        ELSE IF ~struct_parser.ok THEN struct_parser
        ELSE Ok(<<>>, [config |-> from_meta_attributes(attrs),
                       pre_exec |-> pre_post_exec(attrs).pre_exec,
                       post_exec |-> pre_post_exec(attrs).post_exec,
                       struct_parser |-> struct_parser.out])

from_datastruct(attrs, fields) ==
    LET attributes == parse_top_level_attributes(attrs)
        struct_parser == from_fields(fields, FALSE)
    IN  IF ~attributes.ok THEN attributes
        ELSE IF unsupported_on_struct(attrs)
        THEN SynError("Structs do not support this attribute",
                      first_unsupported_on_struct(attrs))
        ELSE IF ~struct_parser.ok THEN struct_parser
        ELSE Ok(<<>>, [config |-> from_meta_attributes(attrs),
                       pre_exec |-> pre_post_exec(attrs).pre_exec,
                       post_exec |-> pre_post_exec(attrs).post_exec,
                       struct_parser |-> struct_parser.out])

\* What a derive with type-level directives yields: a compile error, or the
\* Config, the plan, the arm taken and what the generated parser returns
Derived(config, plan, arm, r) ==
    [built |-> TRUE, config |-> config, plan |-> plan, arm |-> arm, result |-> r]

\* The generated body with the post_exec statements left out
generated_body_no_post_exec(pre_exec, parsers, post_exec, nmea_input) ==
    LET pre == run_exec(pre_exec, 1, nmea_input)
        body == struct_body(parsers, 1, pre.rem, <<>>)
    IN  IF ~pre.ok THEN pre ELSE body

\* #pre_exec (the fields) let struct_def = ...; #post_exec
\* Ok((nmea_input, struct_def))
generated_body(pre_exec, parsers, post_exec, nmea_input) ==
    LET pre == run_exec(pre_exec, 1, nmea_input)
        body == struct_body(parsers, 1, pre.rem, <<>>)
        post == run_exec(post_exec, 1, body.rem)
    IN  IF ~pre.ok THEN pre
        ELSE IF ~body.ok THEN body
        ELSE IF ~post.ok THEN post
        ELSE Ok(post.rem, body.out)

\* #[derive(NmeaParse)] on a struct with type-level directives, then
\* <the struct>::parse(text)
derive_struct(attrs, fields, text) ==
    LET s == from_datastruct(attrs, fields)
    IN  IF ~s.ok THEN NotBuilt(s)
        ELSE Derived(s.out.config, s.out.struct_parser, 0,
                     generated_body(s.out.pre_exec, s.out.struct_parser,
                                    s.out.post_exec, text))

\* VariantParser::from_variant that takes "_" for a variant without selector
from_variant_default_selector(variant) ==
    LET attributes == parse_field_level_attributes(variant.attrs)
        struct_parser == from_fields(variant.fields, TRUE)
    IN  IF ~attributes.ok THEN attributes
        ELSE IF ~struct_parser.ok THEN struct_parser
        ELSE Ok(<<>>, [selector |-> IF has_attribute(variant.attrs, "selector")
                                    THEN variant.selector ELSE Wildcard,
                       pre_exec |-> pre_post_exec(variant.attrs).pre_exec,
                       post_exec |-> pre_post_exec(variant.attrs).post_exec,
                       struct_parser |-> struct_parser.out])

\* VariantParser::from_variant; variant.selector is the pattern written in
\* the variant's selector directive, when it has one
from_variant(variant) ==
    LET attributes == parse_field_level_attributes(variant.attrs)
        struct_parser == from_fields(variant.fields, TRUE)
    IN  IF ~attributes.ok THEN attributes
        ELSE IF ~has_attribute(variant.attrs, "selector")
        THEN SynError("Variants must have a selector attribute", "selector")
        ELSE IF ~struct_parser.ok THEN struct_parser
        ELSE Ok(<<>>, [selector |-> variant.selector,
                       pre_exec |-> pre_post_exec(variant.attrs).pre_exec,
                       post_exec |-> pre_post_exec(variant.attrs).post_exec,
                       struct_parser |-> struct_parser.out])

\* dataenum.variants.iter().map(from_variant).collect::<Result<Vec<_>>>()
RECURSIVE from_variants(_, _, _)
from_variants(variants, k, acc) ==
    IF k > Len(variants) THEN Ok(<<>>, acc)
    ELSE LET v == from_variant(variants[k])
         IN  IF ~v.ok THEN v
             ELSE from_variants(variants, k + 1, Append(acc, v.out))

\* Enum::from_dataenum
from_dataenum(attrs, variants) ==
    LET attributes == parse_top_level_attributes(attrs)
        config == from_meta_attributes(attrs)
        parsers == from_variants(variants, 1, <<>>)
    IN  IF ~attributes.ok THEN attributes
        ELSE IF ~config.selector_parser
        THEN SynError("Enums must have a selector attribute", "selector")
        ELSE IF has_attribute(attrs, "separator")
        THEN SynError("Enums do not support separator attributes yet", "separator")
        ELSE IF ~parsers.ok THEN parsers
        ELSE Ok(<<>>, [config |-> config,
                       pre_exec |-> pre_post_exec(attrs).pre_exec,
                       post_exec |-> pre_post_exec(attrs).post_exec,
                       variant_parsers |-> parsers.out])

\* <Enum as Generator>::generate_parse_body, run on nmea_input: #pre_exec,
\* the selector (u8::parse), the match, #post_exec; 0 is the default case
enum_body(e, nmea_input) ==
    LET pre == run_exec(e.pre_exec, 1, nmea_input)
        sel == u8_parse(pre.rem)
        arm == match_arm(e.variant_parsers, sel.out)
        vp == e.variant_parsers[arm]
        matched == IF arm # 0
                   THEN generated_body(vp.pre_exec, vp.struct_parser,
                                       vp.post_exec, sel.rem)
                   ELSE IF e.config.selection_error
                   THEN Err([tag |-> "selection_error"])
                   ELSE Err(ParsingError(sel.rem, "Switch"))
        post == run_exec(e.post_exec, 1, matched.rem)
    IN  IF ~pre.ok THEN [arm |-> 0, result |-> pre]
        ELSE IF ~sel.ok THEN [arm |-> 0, result |-> sel]
        ELSE IF ~matched.ok THEN [arm |-> arm, result |-> matched]
        ELSE IF ~post.ok THEN [arm |-> arm, result |-> post]
        ELSE [arm |-> arm, result |-> Ok(post.rem, matched.out)]

\* #[derive(NmeaParse)] on an enum with type-level directives, then
\* <the enum>::parse(text)
derive_enum(attrs, variants, text) ==
    LET e == from_dataenum(attrs, variants)
        gv == generate_variants(variants)
    IN  IF ~e.ok THEN NotBuilt(e)
        ELSE IF ~gv.ok THEN NotBuilt(gv)
        ELSE Derived(e.out.config, e.out.variant_parsers,
                     enum_body(e.out, text).arm, enum_body(e.out, text).result)

\* Directive lists, struct shapes, enum shapes and texts
MaxAttrs == 2
MaxFields == 3
MaxArms == 3
MaxStructText == 3
AttrLists == SeqsUpTo(MetaAttributeType, MaxAttrs)
FieldShapes == [ty : ElemTypes, attrs : {<<>>, <<"ignore">>}]
                   \cup {[ty |-> "u8", attrs |-> <<"exact">>]}
StructShapes == SeqsUpTo(FieldShapes, MaxFields)
StructTexts == SeqsUpTo(FieldAlphabet, MaxStructText)
VariantShapes ==
    [selector : {Wildcard, Literal(0), Literal(1)},
     fields : {<<[ty |-> "u8", attrs |-> <<>>]>>,
               <<[ty |-> "u8", attrs |-> <<"ignore">>],
                 [ty |-> "u8", attrs |-> <<>>]>>}]
EnumShapes == SeqsUpTo(VariantShapes, MaxArms)
EnumTexts ==
    {<<>>, <<120>>, <<48>>, <<48, 44, 52, 50>>, <<49, 44, 50>>, <<50, 44, 52, 50>>,
     <<49, 50>>, <<48, 44>>, <<49, 44, 120>>}

\* Directive lists a field can carry, directive lists of type-level
\* directives, and the shapes and texts of the derives with directives
FieldAttrLists == {attrs \in AttrLists : parse_field_level_attributes(attrs).ok}
TypeAttrLists ==
    SeqsUpTo({"selector", "selection_error", "separator", "skip_before",
              "skip_after", "pre_exec", "post_exec", "exact"}, MaxAttrs)
DirectiveFieldShapes == [ty : ElemTypes, attrs : FieldAttrLists]
PlainField == [ty |-> "u8", attrs |-> <<>>]
DirectiveStructShapes ==
    {<<f>> : f \in DirectiveFieldShapes}
        \cup {<<f, PlainField>> : f \in DirectiveFieldShapes}
DeriveStructShapes ==
    {<<>>, <<PlainField>>, <<PlainField, [ty |-> "Option<u8>", attrs |-> <<>>]>>}
DeriveTexts ==
    {<<>>, <<50>>, <<50, 120>>, <<50, 44, 53>>, <<50, 44, 53, 120>>, <<120>>,
     <<48, 44, 53>>, <<48, 44, 53, 120>>, <<49, 44, 53>>}
DeriveVariantShapes ==
    [attrs : {<<>>, <<"selector">>}, selector : {Wildcard, Literal(0)},
     fields : {<<PlainField>>}]
DeriveEnumShapes ==
    {<<v>> : v \in DeriveVariantShapes}
        \cup {<<v, w>> : v \in DeriveVariantShapes, w \in DeriveVariantShapes}

\* StructParser::get_parser(ty, attributes, separator)
CallGetParser(ty, attrs, separator) ==
    /\ fn = "none"
    /\ fn' = "get_parser"
    /\ arg' = [text |-> <<>>, ty |-> ty, attrs |-> attrs, separator |-> separator]
    /\ ret' = get_parser(ty, attrs, separator)
    /\ UNCHANGED parseVars

\* StructParser::from_fields(fields, config, preceded)
CallFromFields(fields, preceded) ==
    /\ fn = "none"
    /\ fn' = "from_fields"
    /\ arg' = [text |-> <<>>, fields |-> fields, preceded |-> preceded]
    /\ ret' = from_fields(fields, preceded)
    /\ UNCHANGED parseVars

\* A struct with type-level directives derived and its parser called
CallDeriveStruct(attrs, fields, text) ==
    /\ fn = "none"
    /\ fn' = "derive struct"
    /\ arg' = [text |-> text, attrs |-> attrs, fields |-> fields]
    /\ ret' = derive_struct(attrs, fields, text)
    /\ UNCHANGED parseVars

\* An enum with type-level and variant directives derived and its parser
\* called
CallDeriveEnum(attrs, variants, text) ==
    /\ fn = "none"
    /\ fn' = "derive enum"
    /\ arg' = [text |-> text, attrs |-> attrs, variants |-> variants]
    /\ ret' = derive_enum(attrs, variants, text)
    /\ UNCHANGED parseVars

\* parse_top_level_attributes(attrs)
CallParseTopLevel(attrs) ==
    /\ fn = "none"
    /\ fn' = "parse_top_level_attributes"
    /\ arg' = [text |-> <<>>, attrs |-> attrs]
    /\ ret' = parse_top_level_attributes(attrs)
    /\ UNCHANGED parseVars

\* parse_field_level_attributes(attrs)
CallParseFieldLevel(attrs) ==
    /\ fn = "none"
    /\ fn' = "parse_field_level_attributes"
    /\ arg' = [text |-> <<>>, attrs |-> attrs]
    /\ ret' = parse_field_level_attributes(attrs)
    /\ UNCHANGED parseVars

\* A derived struct parser built and called
CallStructParse(fields, text) ==
    /\ fn = "none"
    /\ fn' = "struct"
    /\ arg' = [text |-> text, fields |-> fields]
    /\ ret' = struct_parse(fields, text)
    /\ UNCHANGED parseVars

\* A derived enum parser built and called
CallEnumParse(variants, selection_error, text) ==
    /\ fn = "none"
    /\ fn' = "enum"
    /\ arg' = [text |-> text, variants |-> variants,
               selection_error |-> selection_error]
    /\ ret' = enum_parse(variants, selection_error, text)
    /\ UNCHANGED parseVars

NextDerive ==
    \/ fn = "none" /\ \E attrs \in AttrLists : CallParseTopLevel(attrs)
    \/ fn = "none" /\ \E attrs \in AttrLists : CallParseFieldLevel(attrs)
    \/ fn = "none" /\ \E fields \in StructShapes, text \in StructTexts :
                          CallStructParse(fields, text)
    \/ fn = "none" /\ \E variants \in EnumShapes, selection_error \in BOOLEAN,
                          text \in EnumTexts :
                          CallEnumParse(variants, selection_error, text)
    \/ fn = "none" /\ \E ty \in ElemTypes, attrs \in FieldAttrLists,
                          separator \in BOOLEAN :
                          CallGetParser(ty, attrs, separator)
    \/ fn = "none" /\ \E fields \in DirectiveStructShapes, preceded \in BOOLEAN :
                          CallFromFields(fields, preceded)
    \/ fn = "none" /\ \E attrs \in TypeAttrLists, fields \in DeriveStructShapes,
                          text \in DeriveTexts :
                          CallDeriveStruct(attrs, fields, text)
    \/ fn = "none" /\ \E attrs \in TypeAttrLists, variants \in DeriveEnumShapes,
                          text \in DeriveTexts :
                          CallDeriveEnum(attrs, variants, text)
    \/ FnReturn

SpecDerive == InitFn /\ [][NextDerive]_vars

-----------------------------------------------------------------------------
(* The loops of <Vec<T>>::parse and <heapless::Vec<T, N>>::parse, one      *)
(* element parse per step.  arg is the frame of the call: its text, T and  *)
(* N, the place reached (the first element or the loop) and the locals i   *)
(* and elems; ret is Pending until the call returns.                       *)

MaxLoopText == 4
LoopTexts == SeqsUpTo(FieldAlphabet, MaxLoopText)

\* Element types: u8, Option<u8>, and Vec<u8>, whose parse and
\* parse_preceded can succeed on nothing
LoopElemTypes == ElemTypes \cup {"Vec<u8>"}

elem_parse(T, s) == IF T = "Vec<u8>" THEN vec_parse("u8", s) ELSE T_parse(T, s)

elem_parse_preceded(T, s) ==
    IF T = "Vec<u8>" THEN vec_parse_preceded("u8", s) ELSE T_parse_preceded(T, s)

Running == fn \in {"Vec::parse loop", "heapless::Vec::parse loop"} /\ ret = Pending

\* What parse returns with: Ok((i, elems)) for Vec,
\* Ok((i, elems.into_iter().collect())) for heapless::Vec
loop_return(s, elems) ==
    IF fn = "heapless::Vec::parse loop" THEN collect(arg.N, s, elems)
    ELSE Ok(s, elems)

\* Vec::<T>::parse(text) or heapless::Vec::<T, N>::parse(text) entered
LoopCall(name, T, N, text) ==
    /\ fn = "none"
    /\ fn' = name
    /\ arg' = [mode |-> "none", le |-> "none", text |-> text, c |-> 0,
               T |-> T, N |-> N, at |-> "first", cur |-> text, elems |-> <<>>]
    /\ ret' = Pending
    /\ UNCHANGED parseVars

\* match T::parse(i.clone()) { ... }
LoopFirst ==
    /\ Running
    /\ arg.at = "first"
    /\ LET first == elem_parse(arg.T, arg.cur)
       IN  IF ~first.ok
           THEN ret' = loop_return(arg.cur, arg.elems) /\ UNCHANGED arg
           ELSE IF Len(first.rem) = Len(arg.cur)
           THEN ret' = Err(ParsingError(arg.cur, "Many0")) /\ UNCHANGED arg
           ELSE /\ arg' = [arg EXCEPT !.at = "loop", !.cur = first.rem,
                                      !.elems = Append(arg.elems, first.out)]
                /\ UNCHANGED ret
    /\ UNCHANGED <<fn, parseVars>>

\* One iteration of the loop without the test that the parser consumed
LoopIterateUnchecked ==
    /\ Running
    /\ arg.at = "loop"
    /\ LET next == elem_parse_preceded(arg.T, arg.cur)
       IN  IF fn = "heapless::Vec::parse loop" /\ Len(arg.elems) = arg.N
           THEN ret' = loop_return(arg.cur, arg.elems) /\ UNCHANGED arg
           ELSE IF ~next.ok
           THEN ret' = loop_return(arg.cur, arg.elems) /\ UNCHANGED arg
           ELSE /\ arg' = [arg EXCEPT !.cur = next.rem,
                                      !.elems = Append(arg.elems, next.out)]
                /\ UNCHANGED ret
    /\ UNCHANGED <<fn, parseVars>>

\* One iteration of loop { ... }: the capacity test (heapless::Vec only),
\* then match T::parse_preceded(char(',')).parse(i.clone()) { ... }
LoopIterate ==
    /\ Running
    /\ arg.at = "loop"
    /\ LET next == elem_parse_preceded(arg.T, arg.cur)
       IN  IF fn = "heapless::Vec::parse loop" /\ Len(arg.elems) = arg.N
           THEN ret' = loop_return(arg.cur, arg.elems) /\ UNCHANGED arg
           ELSE IF ~next.ok
           THEN ret' = loop_return(arg.cur, arg.elems) /\ UNCHANGED arg
           ELSE IF Len(next.rem) = Len(arg.cur)
           THEN ret' = Err(ParsingError(arg.cur, "Many0")) /\ UNCHANGED arg
           ELSE /\ arg' = [arg EXCEPT !.cur = next.rem,
                                      !.elems = Append(arg.elems, next.out)]
                /\ UNCHANGED ret
    /\ UNCHANGED <<fn, parseVars>>

\* The caller takes the result
LoopReturn == ret # Pending /\ FnReturn

NextLoop ==
    \/ fn = "none" /\ \E T \in LoopElemTypes, text \in LoopTexts :
                          LoopCall("Vec::parse loop", T, 0, text)
    \/ fn = "none" /\ \E T \in LoopElemTypes, N \in 0 .. MaxN, text \in LoopTexts :
                          LoopCall("heapless::Vec::parse loop", T, N, text)
    \/ LoopFirst
    \/ LoopIterate
    \/ LoopReturn

\* A call that was entered keeps running: its steps are weakly fair
SpecLoop ==
    InitFn /\ [][NextLoop]_vars /\ WF_vars(LoopFirst) /\ WF_vars(LoopIterate)

-----------------------------------------------------------------------------
(* Vocabulary of the properties, stated on the bytes of a text and not     *)
(* through the parser's own functions                                      *)

AllAscii(s) == \A k \in 1 .. Len(s) : s[k] <= 127
HasCrlfAt(s, p) == p >= 1 /\ p + 1 <= Len(s) /\ s[p] = 13 /\ s[p + 1] = 10
ContainsCrlf(s) == \E p \in 1 .. Len(s) : HasCrlfAt(s, p)
ContainsStar(s) == \E k \in 1 .. Len(s) : s[k] = 42
StartsWithDollar(s) == Len(s) >= 1 /\ s[1] = 36
EndsWithCrlf(s) == HasCrlfAt(s, Len(s) - 1)
IsSuffix(t, s) == Len(t) <= Len(s) /\ t = Drop(s, Len(s) - Len(t))

\* The sixteen hex digits in order, upper and lower case
UpperDigits == <<48, 49, 50, 51, 52, 53, 54, 55, 56, 57, 65, 66, 67, 68, 69, 70>>
LowerDigits == <<48, 49, 50, 51, 52, 53, 54, 55, 56, 57, 97, 98, 99, 100, 101, 102>>
IsHexByte(b) == \E d \in 1 .. 16 : UpperDigits[d] = b \/ LowerDigits[d] = b
DigitValue(b) == (CHOOSE d \in 1 .. 16 : UpperDigits[d] = b \/ LowerDigits[d] = b) - 1
IsHexPair(h) == Len(h) = 2 /\ IsHexByte(h[1]) /\ IsHexByte(h[2])
HexPairValue(h) == 16 * DigitValue(h[1]) + DigitValue(h[2])

\* XOR of the bytes of s, first byte first
RECURSIVE XorOf(_)
XorOf(s) == IF Len(s) = 0 THEN 0 ELSE Xor(s[1], XorOf(Drop(s, 1)))

\* First position after the '$' that holds a '*' or starts a CRLF
\* (one past the end when there is none)
BoundaryOf(s) ==
    LET t == Drop(s, 1)
        stops == {p \in 1 .. Len(t) : t[p] = 42 \/ HasCrlfAt(t, p)}
    IN  IF stops = {} THEN Len(t) + 1
        ELSE CHOOSE p \in stops : \A q \in stops : p <= q

\* "$" + content + tail with content free of '*' and CRLF and tail empty or
\* beginning with '*' or CRLF
ContentOf(s) == Take(Drop(s, 1), BoundaryOf(s) - 1)
TailOf(s) == Drop(Drop(s, 1), BoundaryOf(s) - 1)

\* The split of section 4.4, step 3: at the first '*', else at the first
\* CRLF, else at the end
StarPos(s) ==
    LET t == Drop(s, 1)
        stars == {p \in 1 .. Len(t) : t[p] = 42}
    IN  IF stars = {} THEN 0 ELSE CHOOSE p \in stars : \A q \in stars : p <= q
SplitAt(s) == IF StarPos(s) > 0 THEN StarPos(s) ELSE BoundaryOf(s)
SplitContent(s) == Take(Drop(s, 1), SplitAt(s) - 1)
SplitTail(s) == Drop(Drop(s, 1), SplitAt(s) - 1)

\* t is "*CC" with CC two hex digits whose value is the XOR of content
IsChecksumField(t, content) ==
    /\ Len(t) = 3
    /\ t[1] = 42
    /\ IsHexPair(Drop(t, 1))
    /\ HexPairValue(Drop(t, 1)) = XorOf(content)

\* The four framing grammars: *CC CRLF; *CC; CRLF or *CC CRLF; nothing or *CC
TailHasForm(ccm, le, content, tail) ==
    /\ le = "Required" => EndsWithCrlf(tail)
    /\ LET body == IF le = "Required" THEN Take(tail, Len(tail) - 2) ELSE tail
       IN  \/ IsChecksumField(body, content)
           \/ ccm = "Optional" /\ body = <<>>

ccMode == closure.self.checksum_mode
leMode == closure.self.line_ending_mode
Returned == pc = "done"

-----------------------------------------------------------------------------
(* Properties *)

\* C1 (as stated): for every ASCII input "$" + content + tail, content free
\* of '*' and CRLF, tail empty or beginning with '*' or CRLF, and a content
\* parser that accepts content, the parse succeeds exactly when the tail has
\* the form of the configuration.
C1_ModeMatrix ==
    (/\ Returned
     /\ AllAscii(input)
     /\ StartsWithDollar(input)
     /\ content_parser(closure.content_parser, ContentOf(input)).ok)
    => (result.ok <=> TailHasForm(ccMode, leMode, ContentOf(input), TailOf(input)))

\* C1, on the inputs whose first '*' does not come after a CRLF (there the
\* content of the claim is the content the parser splits off): the mode
\* matrix holds.
C1_ModeMatrixStarFirst ==
    (/\ Returned
     /\ AllAscii(input)
     /\ StartsWithDollar(input)
     /\ SplitContent(input) = ContentOf(input)
     /\ content_parser(closure.content_parser, ContentOf(input)).ok)
    => (result.ok <=> TailHasForm(ccMode, leMode, ContentOf(input), TailOf(input)))

C1_Accepted ==
    /\ Returned
    /\ result.ok
    /\ ccMode = "Optional"
    /\ leMode = "Forbidden"
    /\ TailOf(input) = <<>>

\* A sentence whose content holds a CRLF ahead of the '*' was accepted
C1_CrlfBeforeStarAccepted ==
    /\ Returned
    /\ result.ok
    /\ input = In_X_crlf_5F_crlf
    /\ ccMode = "Required"
    /\ leMode = "Required"

\* The input is well framed for the configuration and declares a checksum:
\* "$" + content + "*" + two hex digits (+ CRLF when CRLF is required),
\* content free of '*'
DeclaresChecksum(s) ==
    /\ AllAscii(s)
    /\ StartsWithDollar(s)
    /\ StarPos(s) > 0
    /\ LET t == SplitTail(s)
           body == IF leMode = "Required" THEN Take(t, Len(t) - 2) ELSE t
       IN  /\ leMode = "Required" => EndsWithCrlf(t)
           /\ Len(body) = 3
           /\ IsHexPair(Drop(body, 1))

DeclaredValue(s) == HexPairValue(SubSeq(SplitTail(s), 2, 3))

\* The input is well framed for the configuration and declares no checksum:
\* "$" + content (+ CRLF when CRLF is required), no '*' anywhere
DeclaresNoChecksum(s) ==
    /\ AllAscii(s)
    /\ StartsWithDollar(s)
    /\ ~ContainsStar(s)
    /\ SplitTail(s) = (IF leMode = "Required" THEN CRLF ELSE <<>>)

\* C2: a declared checksum that differs from the XOR of the content bytes
\* fails the parse with ChecksumMismatch{expected: computed, found: declared}
\* in both checksum modes, the content parser not being called; in Optional
\* mode without "*CC" nothing is compared and the content parser decides;
\* "$X*99\r\n" gives expected 0x58 (the XOR of "X"), found 0x99.
C2_ChecksumMismatch ==
    Returned =>
        /\ (DeclaresChecksum(input)
              /\ DeclaredValue(input) # XorOf(SplitContent(input)))
           => /\ result = Err(ChecksumMismatch(XorOf(SplitContent(input)),
                                               DeclaredValue(input)))
              /\ content_calls = 0
        /\ (DeclaresNoChecksum(input) /\ ccMode = "Optional")
           => /\ declared = None
              /\ content_calls = 1
              /\ result = content_parser(closure.content_parser,
                                         SplitContent(input))
        /\ (input = In_X_99_crlf /\ leMode = "Required")
           => result = Err(ChecksumMismatch(88, 153))

C2_Mismatch ==
    /\ Returned
    /\ input = In_X_99_crlf
    /\ ccMode = "Optional"
    /\ leMode = "Required"
    /\ ~result.ok
    /\ result.err.tag = "ChecksumMismatch"

\* The stages of a parse call, in the order of the closure body
StageOrder ==
    <<"ascii", "dollar", "split", "crlf", "checksum", "compare", "content">>

IsPrefix(t, s) == Len(t) <= Len(s) /\ t = Take(s, Len(t))

\* The error e is one the stage can raise
ErrorOfStage(stage, e) ==
    CASE stage = "ascii" -> e.tag = "NonAscii"
      [] stage = "dollar" -> e.tag = "ParsingError" /\ e.code = "Char"
      [] stage = "crlf" -> e.tag = "ParsingError" /\ e.code = "CrLf"
      [] stage = "checksum" ->
            e.tag = "ParsingError" /\ e.code \in {"Char", "Eof", "Count", "IsA"}
      [] stage = "compare" -> e.tag = "ChecksumMismatch"
      [] stage = "content" ->
            Err(e) = content_parser(closure.content_parser, SplitContent(input))
      [] OTHER -> FALSE

\* The tail breaks the line-ending policy
LineEndingViolated(t) ==
    IF leMode = "Required"
    THEN ~(EndsWithCrlf(t) /\ ~ContainsCrlf(Take(t, Len(t) - 2)))
    ELSE ContainsCrlf(t)

\* C3: the stages run in the fixed order ASCII check, '$', (split,)
\* line-ending policy, checksum extraction, checksum comparison, content
\* parser; the call returns the error of the first stage that fails and runs
\* no later stage; the content parser runs at most once and only after every
\* framing stage; a line-ending violation is reported as CrLf whatever the
\* checksum field looks like.
C3_StageOrder ==
    /\ pc \in {"builder", "ready"} => stages = <<>>
    /\ pc \notin {"builder", "ready"} =>
        /\ IsPrefix(stages, StageOrder)
        /\ content_calls <= 1
        /\ content_calls = 1 <=> (Returned /\ stages = StageOrder)
        /\ ~Returned => /\ result = Pending
                        /\ pc = StageOrder[Len(stages) + 1]
        /\ (Returned /\ result.ok) => stages = StageOrder
        /\ (Returned /\ ~result.ok) =>
               /\ ErrorOfStage(stages[Len(stages)], result.err)
               /\ ~AllAscii(input) => Len(stages) = 1
               /\ (AllAscii(input) /\ ~StartsWithDollar(input))
                      => Len(stages) = 2
        /\ (/\ Returned
            /\ AllAscii(input)
            /\ StartsWithDollar(input)
            /\ LineEndingViolated(SplitTail(input)))
           => /\ IsErrKind(result, "CrLf")
              /\ stages = Take(StageOrder, 4)

\* "$X*1z" with CRLF required: malformed checksum field and no CRLF
C3_CrlfBeforeChecksum ==
    /\ Returned
    /\ input = In_X_1z
    /\ leMode = "Required"
    /\ IsErrKind(result, "CrLf")

\* C4: an input with a byte outside 7-bit ASCII anywhere fails with NonAscii,
\* whatever else is wrong with it, and the content parser is not called.
C4_NonAscii ==
    (Returned /\ ~AllAscii(input))
    => /\ result = Err(NonAscii)
       /\ content_calls = 0
       /\ stages = <<"ascii">>

\* Non-ASCII bytes after an otherwise valid "$X*58\r\n"
C4_NonAsciiAfterFrame ==
    /\ Returned
    /\ input = In_X_58_crlf_nonascii
    /\ result = Err(NonAscii)

\* The input is "$" + c + "*" + format_checksum(checksum(c)) + "\r\n" for
\* the c it holds between the '$' and its last '*'
LastStar(s) ==
    LET stars == {p \in 1 .. Len(s) : s[p] = 42}
    IN  IF stars = {} THEN 0 ELSE CHOOSE p \in stars : \A q \in stars : q <= p
FramedContentOf(s) == SubSeq(s, 2, LastStar(s) - 1)
IsFramed(s) == LastStar(s) >= 2 /\ s = Framed(FramedContentOf(s))

StrictFields ==
    /\ ccMode = "Required"
    /\ leMode = "Required"
    /\ closure.content_parser = "fields"

\* The call succeeded on content c: the content parser was handed exactly c
\* and nothing remains
FramedAccepted(c) ==
    /\ result.ok
    /\ result.rem = <<>>
    /\ content_calls = 1
    /\ data = c
    /\ result.out = split_fields(c)

\* C5 (as stated): for every ASCII content, parsing "$" + content + "*" +
\* format_checksum(checksum(content)) + "\r\n" with (Required, Required) and
\* a content parser that accepts and consumes everything succeeds, the
\* content parser receives exactly content, and nothing remains.
C5_IdempotentFramingAnyContent ==
    (Returned /\ StrictFields /\ IsFramed(input))
    => FramedAccepted(FramedContentOf(input))

\* C5 (amended): the same for every ASCII content that holds no '*'.
C5_IdempotentFraming ==
    (/\ Returned
     /\ StrictFields
     /\ IsFramed(input)
     /\ ~ContainsStar(FramedContentOf(input)))
    => FramedAccepted(FramedContentOf(input))

\* "$J,*66\r\n" was parsed into the fields "J" and ""
C5_FramedParsed ==
    /\ Returned
    /\ StrictFields
    /\ input = Framed(<<74, 44>>)
    /\ FramedAccepted(<<74, 44>>)
    /\ result.out = <<<<74>>, <<>>>>

RequiredForbidden == ccMode = "Required" /\ leMode = "Forbidden"

\* C6 (as stated): (Required, Forbidden) accepts "$X*41" and rejects
\* "$X*41\r\n" and "$X".
C6_RequiredForbiddenX41 ==
    (Returned /\ RequiredForbidden)
    => /\ input = In_X_41 => result.ok
       /\ input = In_X_41_crlf => ~result.ok
       /\ input = In_X => ~result.ok

\* C6 (amended): (Required, Forbidden) accepts "$X*58" (0x58 is the XOR of
\* "X") and rejects "$X*58\r\n" (CrLf) and "$X" (no '*'); "$X*41" is rejected
\* with ChecksumMismatch{expected: 0x58, found: 0x41} and "$X*41\r\n" with
\* CrLf.
C6_RequiredForbiddenX58 ==
    (Returned /\ RequiredForbidden)
    => /\ input = In_X_58
          => result = content_parser(closure.content_parser, <<88>>)
       /\ input = In_X_58_crlf => IsErrKind(result, "CrLf")
       /\ input = In_X => IsErrKind(result, "Char")
       /\ input = In_X_41 => result = Err(ChecksumMismatch(88, 65))
       /\ input = In_X_41_crlf => IsErrKind(result, "CrLf")

C6_X58Accepted ==
    /\ Returned
    /\ RequiredForbidden
    /\ input = In_X_58
    /\ result.ok

\* Every framing check of section 4.4 passes on s
FramingPasses(s) ==
    /\ AllAscii(s)
    /\ StartsWithDollar(s)
    /\ TailHasForm(ccMode, leMode, SplitContent(s), SplitTail(s))

\* The result is the content parser's own result on the content slice, and
\* what remains is a sub-slice of the content
PropagatesResult ==
    /\ content_calls = 1
    /\ result = content_parser(closure.content_parser, SplitContent(input))
    /\ result.ok => IsSuffix(result.rem, SplitContent(input))

OptionalRequiredNonEmpty ==
    /\ ccMode = "Optional"
    /\ leMode = "Required"
    /\ closure.content_parser = "non_empty"

\* C7 (as stated): when every framing check passes the result is exactly the
\* content parser's result on the content slice - same value, same remaining
\* input, same error - and the remaining input is a sub-slice of the content
\* that holds no '*' and no CRLF; with (Optional, Required),
\* "$GPGGA,123456,data*41\r\n" succeeds and "$\r\n" returns the content
\* parser's error for empty content.
C7_ContentResult ==
    /\ (Returned /\ FramingPasses(input))
       => /\ PropagatesResult
          /\ result.ok => /\ ~ContainsStar(result.rem)
                          /\ ~ContainsCrlf(result.rem)
    /\ (Returned /\ OptionalRequiredNonEmpty)
       => /\ input = In_GPGGA_41_crlf => result.ok
          /\ input = In_crlf => result = Err(ParsingError(<<>>, "Eof"))

\* C7 without the CRLF-freedom of the remaining input: the result is the
\* content parser's, what remains is a sub-slice of the content and holds no
\* '*', and the two examples behave as stated.
C7_ContentResultPropagated ==
    /\ (Returned /\ FramingPasses(input))
       => /\ PropagatesResult
          /\ result.ok => ~ContainsStar(result.rem)
    /\ (Returned /\ OptionalRequiredNonEmpty)
       => /\ input = In_GPGGA_41_crlf => result.ok
          /\ input = In_crlf => result = Err(ParsingError(<<>>, "Eof"))
    /\ (Returned /\ content_calls = 1) => FramingPasses(input)

C7_EmptyContentError ==
    /\ Returned
    /\ OptionalRequiredNonEmpty
    /\ input = In_crlf
    /\ content_calls = 1
    /\ IsErrKind(result, "Eof")

\* C8: crlf in Required mode accepts a text exactly when its first CRLF is
\* its last two bytes and hands on the text without them; in Forbidden mode
\* it accepts a text exactly when it holds no CRLF and hands it on unchanged;
\* every rejection has error kind CrLf.
C8_LineEndingPolicy ==
    fn = "crlf" =>
        /\ arg.le = "Required" =>
            /\ ret.ok <=> /\ EndsWithCrlf(arg.text)
                          /\ ~ContainsCrlf(Take(arg.text, Len(arg.text) - 2))
            /\ ret.ok => ret.rem = Take(arg.text, Len(arg.text) - 2)
        /\ arg.le = "Forbidden" =>
            /\ ret.ok <=> ~ContainsCrlf(arg.text)
            /\ ret.ok => ret.rem = arg.text
        /\ ~ret.ok => IsErrKind(ret, "CrLf")

\* "1*\r\n" with CRLF required: "1*" is handed on
C8_CrlfStripped ==
    /\ fn = "crlf"
    /\ arg.le = "Required"
    /\ arg.text = <<49, 42, 13, 10>>
    /\ ret = Ok(<<49, 42>>, <<>>)

\* C9: for every c in 0..255 format_checksum(c) is two uppercase hex digits
\* (that denote c), and checksum_crlf in Required checksum mode applied to
\* "*" + format_checksum(c) (followed by CRLF when CRLF is required) returns
\* Some(c) with nothing remaining.
C9_ChecksumRoundTrip ==
    /\ fn = "format_checksum" =>
        /\ Len(ret) = 2
        /\ \A k \in 1 .. 2 : \E d \in 1 .. 16 : UpperDigits[d] = ret[k]
        /\ HexPairValue(ret) = arg.c
    /\ (fn = "checksum_crlf" /\ arg.mode = "Required") =>
        \A c \in Byte :
            arg.text = STAR \o format_checksum(c)
                            \o (IF arg.le = "Required" THEN CRLF ELSE <<>>)
            => ret = Ok(<<>>, Some(c))

\* "*AF" (0xAF formatted) was parsed back to 175
C9_ParsedBack ==
    /\ fn = "checksum_crlf"
    /\ arg.mode = "Required"
    /\ arg.le = "Forbidden"
    /\ arg.text = STAR \o format_checksum(175)
    /\ arg.text = <<42, 65, 70>>
    /\ ret = Ok(<<>>, Some(175))

SetLast(mode) == IF mode = "unset" THEN "Required" ELSE mode

C11_LastSetWins ==
    LET want == [checksum_mode    |-> SetLast(last_set.checksum_mode),
                 line_ending_mode |-> SetLast(last_set.line_ending_mode)]
    IN  /\ new = [checksum_mode |-> "Required", line_ending_mode |-> "Required"]
        /\ default = new
        /\ builder = want
        /\ pc # "builder" => closure.self = want
        /\ Returned => result = fresh_parse(want, closure.content_parser, input)

\* Only the line-ending mode was ever set (to Forbidden, after the checksum
\* mode stayed at its default) and the built parser accepted "$X*58"
C11_OnlyLineEndingSet ==
    /\ Returned
    /\ last_set = [checksum_mode |-> "unset", line_ending_mode |-> "Forbidden"]
    /\ input = In_X_58
    /\ result.ok

\* C12: Option<T>::parse_preceded(',') fails when the text does not start
\* with ','; after the ',' it yields Some(value) when T::parse succeeds, None
\* (leaving everything after that one ',') when T::parse fails and the rest
\* is empty or starts with another ',', and otherwise fails with kind Verify
\* on the original text.  Applied twice to ",,4" it yields None, then Some(4),
\* and nothing remains.
StartsWithComma(s) == Len(s) > 0 /\ s[1] = 44

C12_OptionPreceded ==
    /\ fn = "Option::parse_preceded" =>
        LET t == arg.text
            a == IF Len(t) > 0 THEN Tail(t) ELSE <<>>
            v == u8_parse(a)
        IN  /\ ~StartsWithComma(t) => ~ret.ok
            /\ (StartsWithComma(t) /\ v.ok) => ret = Ok(v.rem, Some(v.out))
            /\ (StartsWithComma(t) /\ ~v.ok /\ (a = <<>> \/ StartsWithComma(a)))
                   => ret = Ok(a, None)
            /\ (StartsWithComma(t) /\ ~v.ok /\ a # <<>> /\ ~StartsWithComma(a))
                   => ret = Err(ParsingError(t, "Verify"))
    /\ (fn = "Option::parse_preceded x2" /\ arg.text = Tx_cc4) =>
        ret = Ok(<<>>, <<None, Some(4)>>)

\* ",,4" parsed as two optional fields gave (None, Some(4))
C12_TwoFields ==
    /\ fn = "Option::parse_preceded x2"
    /\ arg.text = <<44, 44, 52>>
    /\ ret.ok
    /\ ret.rem = <<>>
    /\ ret.out = <<None, Some(4)>>

\* C13: for N >= 1, [T; N]::parse parses exactly N elements, the first
\* without a separator and each later one after a ',', and returns them in
\* order with the input left after the N-th; if an element or its separator
\* is missing or malformed it fails with kind Count.  [u8; 3]::parse fails on
\* "1,2" and returns [1, 2, 3] with nothing left on "1,2,3".
RECURSIVE ElemsExpected(_, _, _, _)
ElemsExpected(T, n, first, s) ==
    IF n = 0 THEN [ok |-> TRUE, rem |-> s, out |-> <<>>]
    ELSE IF ~first /\ ~StartsWithComma(s) THEN [ok |-> FALSE]
    ELSE LET e == T_parse(T, IF first THEN s ELSE Tail(s))
         IN  IF ~e.ok THEN [ok |-> FALSE]
             ELSE LET r == ElemsExpected(T, n - 1, FALSE, e.rem)
                  IN  IF ~r.ok THEN [ok |-> FALSE]
                      ELSE [ok |-> TRUE, rem |-> r.rem, out |-> <<e.out>> \o r.out]

C13_ArrayArity ==
    (fn = "[T; N]::parse" /\ arg.N >= 1) =>
        LET e == ElemsExpected(arg.T, arg.N, TRUE, arg.text)
        IN  /\ e.ok => ret = Ok(e.rem, e.out)
            /\ ret.ok => Len(ret.out) = arg.N
            /\ ~e.ok => IsErrKind(ret, "Count")
            /\ (arg.T = "u8" /\ arg.N = 3 /\ arg.text = Tx_12) => ~ret.ok
            /\ (arg.T = "u8" /\ arg.N = 3 /\ arg.text = Tx_123)
                   => ret = Ok(<<>>, <<1, 2, 3>>)

\* [u8; 3]::parse("1,2,3") returned [1, 2, 3]
C13_ThreeParsed ==
    /\ fn = "[T; N]::parse"
    /\ arg.T = "u8"
    /\ arg.N = 3
    /\ arg.text = <<49, 44, 50, 44, 51>>
    /\ ret.ok
    /\ ret.out = <<1, 2, 3>>
    /\ ret.rem = <<>>

\* A list of optional u8 fields: its fields, split at the commas, are each
\* empty or a decimal number up to 255
RECURSIVE CommaFields(_)
CommaFields(s) ==
    IF \A k \in 1 .. Len(s) : s[k] # 44 THEN <<s>>
    ELSE LET p == CHOOSE k \in 1 .. Len(s) :
                      s[k] = 44 /\ \A j \in 1 .. k - 1 : s[j] # 44
         IN  <<Take(s, p - 1)>> \o CommaFields(Drop(s, p))

RECURSIVE Decimal(_)
Decimal(f) ==
    IF Len(f) = 0 THEN 0 ELSE 10 * Decimal(Take(f, Len(f) - 1)) + (f[Len(f)] - 48)

IsNumber(f) ==
    /\ Len(f) > 0
    /\ \A k \in 1 .. Len(f) : f[k] \in 48 .. 57
    /\ Decimal(f) <= 255

IsOptionalList(s) ==
    \A k \in 1 .. Len(CommaFields(s)) :
        CommaFields(s)[k] = <<>> \/ IsNumber(CommaFields(s)[k])

OptionalValues(s) ==
    [k \in 1 .. Len(CommaFields(s)) |->
        IF CommaFields(s)[k] = <<>> THEN None ELSE Some(Decimal(CommaFields(s)[k]))]

VecOfOptions(l) ==
    /\ (fn = "Vec::parse" /\ arg.T = "Option<u8>" /\ arg.text = l)
           => ret = Ok(<<>>, OptionalValues(l))
    /\ (fn = "Vec::parse_preceded" /\ arg.T = "Option<u8>" /\ arg.text = COMMA \o l)
           => ret = Ok(<<>>, OptionalValues(l))

\* C14: for every comma-separated list of n >= 1 optional u8 fields,
\* Vec<Option<u8>>::parse on the list and Vec<Option<u8>>::parse_preceded(',')
\* on ',' + list both return the n values (None for an empty field) and leave
\* nothing.
C14_VecParseEquivalence ==
    \A l \in {arg.text, IF Len(arg.text) > 0 THEN Tail(arg.text) ELSE <<>>} :
        IsOptionalList(l) => VecOfOptions(l)

\* The same for the lists whose first field is a number
C14_VecParseEquivalenceFirstGiven ==
    \A l \in {arg.text, IF Len(arg.text) > 0 THEN Tail(arg.text) ELSE <<>>} :
        (IsOptionalList(l) /\ CommaFields(l)[1] # <<>>) => VecOfOptions(l)

\* parse_preceded accepted ",,2" (the list ",2") as [None, Some(2)]
C14_PrecededLeadingEmpty ==
    /\ fn = "Vec::parse_preceded"
    /\ arg.T = "Option<u8>"
    /\ arg.text = <<44, 44, 50>>
    /\ ret = Ok(<<>>, <<None, Some(2)>>)

\* C15: heapless::Vec<T, N>::parse returns between 0 and N elements for
\* every capacity N and every input: it takes elements greedily, stops
\* without error at the first separator-prefixed element that fails, and
\* stops after N elements leaving the rest of the input.  (T = u8.)
IsGreedyPrefix(T, N, s, r) ==
    /\ r.ok
    /\ Len(r.out) \in 0 .. N
    /\ IsSuffix(r.rem, s)
    /\ \/ Len(r.out) = N
       \/ Len(r.out) = 0 /\ ~T_parse(T, r.rem).ok
       \/ Len(r.out) > 0 /\ ~T_parse_preceded(T, r.rem).ok
    /\ LET e == ElemsExpected(T, Len(r.out), TRUE, s)
       IN  e.ok /\ e.out = r.out /\ e.rem = r.rem

C15_BoundedVec ==
    (fn = "heapless::Vec::parse" /\ arg.T = "u8") =>
        IsGreedyPrefix(arg.T, arg.N, arg.text, ret)

\* The same for the capacities N >= 1
C15_BoundedVecFromOne ==
    (fn = "heapless::Vec::parse" /\ arg.T = "u8" /\ arg.N >= 1) =>
        IsGreedyPrefix(arg.T, arg.N, arg.text, ret)

\* heapless::Vec::<u8, 2>::parse("2,5,5") stopped after two elements
C15_StoppedAtCapacity ==
    /\ fn = "heapless::Vec::parse"
    /\ arg.T = "u8"
    /\ arg.N = 2
    /\ arg.text = <<50, 44, 53, 44, 53>>
    /\ ret = Ok(<<44, 53>>, <<2, 5>>)

\* C16: a generated struct parser parses its fields left to right, each on
\* the input the previous one left; its first non-ignored field is parsed
\* without separator and every later non-ignored field after a ','.  A
\* generated enum parser parses the selector first, without separator, and
\* every non-ignored field of the selected variant, the first included,
\* after a ','.
Ignored(field) == \E j \in 1 .. Len(field.attrs) : field.attrs[j] = "ignore"

RECURSIVE FieldsExpected(_, _, _, _)
FieldsExpected(fields, k, separated, s) ==
    IF k > Len(fields) THEN [ok |-> TRUE, rem |-> s, out |-> <<>>]
    ELSE LET e == IF Ignored(fields[k])
                  THEN [ok |-> TRUE, rem |-> s,
                        out |-> IF fields[k].ty = "u8" THEN 0 ELSE None]
                  ELSE IF separated THEN T_parse_preceded(fields[k].ty, s)
                  ELSE T_parse(fields[k].ty, s)
         IN  IF ~e.ok THEN [ok |-> FALSE]
             ELSE LET r == FieldsExpected(fields, k + 1,
                               separated \/ ~Ignored(fields[k]), e.rem)
                  IN  IF ~r.ok THEN [ok |-> FALSE]
                      ELSE [ok |-> TRUE, rem |-> r.rem, out |-> <<e.out>> \o r.out]

AsExpected(r, e) == (r.ok <=> e.ok) /\ (r.ok => r.rem = e.rem /\ r.out = e.out)

C16_FieldOrder ==
    /\ (fn = "struct" /\ ret.built) =>
        /\ Len(ret.plan) = Len(arg.fields)
        /\ \A k \in 1 .. Len(arg.fields) :
               ret.plan[k].separator <=>
                   /\ ~Ignored(arg.fields[k])
                   /\ \E j \in 1 .. k - 1 : ~Ignored(arg.fields[j])
        /\ AsExpected(ret.result, FieldsExpected(arg.fields, 1, FALSE, arg.text))
    /\ (fn = "enum" /\ ret.built) =>
        /\ \A a \in 1 .. Len(arg.variants) :
               \A k \in 1 .. Len(arg.variants[a].fields) :
                   ret.plan[a][k].separator <=> ~Ignored(arg.variants[a].fields[k])
        /\ ~u8_parse(arg.text).ok => ret.result = u8_parse(arg.text)
        /\ ret.arm # 0 =>
               AsExpected(ret.result,
                          FieldsExpected(arg.variants[ret.arm].fields, 1, TRUE,
                                         u8_parse(arg.text).rem))

\* struct { #[nmea(ignore)] a: u8, b: u8, c: Option<u8> } parsed "2,5"
C16_IgnoredFirstField ==
    /\ fn = "struct"
    /\ arg.fields = <<[ty |-> "u8", attrs |-> <<"ignore">>],
                      [ty |-> "u8", attrs |-> <<>>],
                      [ty |-> "Option<u8>", attrs |-> <<>>]>>
    /\ arg.text = <<50, 44, 53>>
    /\ ret.built
    /\ ret.result = Ok(<<>>, <<0, 2, Some(5)>>)

\* The level check of a directive list with the single directive d
AcceptedOnType(d) ==
    (fn = "parse_top_level_attributes" /\ arg.attrs = <<d>>) => ret.ok
AcceptedOnField(d) ==
    (fn = "parse_field_level_attributes" /\ arg.attrs = <<d>>) => ret.ok
RejectedOnType(d) ==
    (fn = "parse_top_level_attributes"
        /\ \E k \in 1 .. Len(arg.attrs) : arg.attrs[k] = d) => ~ret.ok
RejectedOnField(d) ==
    (fn = "parse_field_level_attributes"
        /\ \E k \in 1 .. Len(arg.attrs) : arg.attrs[k] = d) => ~ret.ok

\* C17: selector, selection_error, separator, skip_before, skip_after,
\* pre_exec, post_exec and exact are accepted on a type and rejected on a
\* field or variant; parser, parse_as, ignore, cond, into and map are
\* accepted on a field and rejected on a type.
C17_DirectiveLevels ==
    /\ \A d \in {"selector", "selection_error", "separator", "skip_before",
                 "skip_after", "pre_exec", "post_exec", "exact"} :
           AcceptedOnType(d) /\ RejectedOnField(d)
    /\ \A d \in {"parser", "parse_as", "ignore", "cond", "into", "map"} :
           AcceptedOnField(d) /\ RejectedOnType(d)

\* C17 as the code has it: exact, separator and selection_error are accepted
\* on a type only; parser, parse_as, ignore, cond, into and map on a field or
\* variant only; selector, skip_before, skip_after, pre_exec and post_exec
\* pass the level check in both places.
C17_DirectiveLevelsThreeTypeOnly ==
    /\ \A d \in {"exact", "separator", "selection_error"} :
           AcceptedOnType(d) /\ RejectedOnField(d)
    /\ \A d \in {"parser", "parse_as", "ignore", "cond", "into", "map"} :
           AcceptedOnField(d) /\ RejectedOnType(d)
    /\ \A d \in {"selector", "skip_before", "skip_after", "pre_exec", "post_exec"} :
           AcceptedOnType(d) /\ AcceptedOnField(d)

\* A variant's #[nmea(selector(...))] passed the field-level check
C17_SelectorOnVariant ==
    /\ fn = "parse_field_level_attributes"
    /\ arg.attrs = <<"selector">>
    /\ ret.ok

\* C18: in the directive list of one field or of one type, cond, map,
\* pre_exec and post_exec may occur any number of times; a second occurrence
\* of any other kind is an error.
Occurrences(attrs, d) == Cardinality({k \in 1 .. Len(attrs) : attrs[k] = d})
Repeatable == {"cond", "map", "pre_exec", "post_exec"}
TypeLevel == {"exact", "pre_exec", "post_exec", "selector", "selection_error",
              "separator", "skip_after", "skip_before"}
FieldLevel == MetaAttributeType \ {"exact", "separator", "selection_error"}

RepeatRule(level) ==
    /\ (\E d \in MetaAttributeType \ Repeatable : Occurrences(arg.attrs, d) >= 2)
           => ~ret.ok
    /\ ( /\ \A k \in 1 .. Len(arg.attrs) : arg.attrs[k] \in level
         /\ \A d \in MetaAttributeType \ Repeatable : Occurrences(arg.attrs, d) <= 1
         /\ ~(Occurrences(arg.attrs, "parser") >= 1
                 /\ Occurrences(arg.attrs, "parse_as") >= 1) )
           => ret.ok

C18_Repeatable ==
    /\ fn = "parse_top_level_attributes" => RepeatRule(TypeLevel)
    /\ fn = "parse_field_level_attributes" => RepeatRule(FieldLevel)

\* The same for the directive list of a field only
C18_RepeatableOnField ==
    fn = "parse_field_level_attributes" => RepeatRule(FieldLevel)

\* Two pre_exec on one field were accepted
C18_TwoPreExecOnField ==
    /\ fn = "parse_field_level_attributes"
    /\ arg.attrs = <<"pre_exec", "pre_exec">>
    /\ ret.ok

\* C19: building an enum parser fails whenever a wildcard arm is not the
\* last arm (hence whenever there are two wildcard arms) and, as far as this
\* check goes, succeeds when the only wildcard arm is last or there is none.
WildcardArms(variants) ==
    {k \in 1 .. Len(variants) : variants[k].selector = [pat |-> "_"]}

C19_WildcardLast ==
    fn = "enum" =>
        /\ (\E k \in WildcardArms(arg.variants) : k # Len(arg.variants))
               => ~ret.built
        /\ Cardinality(WildcardArms(arg.variants)) >= 2 => ~ret.built
        /\ WildcardArms(arg.variants) \subseteq {Len(arg.variants)} => ret.built

\* enum { #[selector(_)] A, #[selector(0)] B } was refused
C19_WildcardFirstRefused ==
    /\ fn = "enum"
    /\ Len(arg.variants) = 2
    /\ arg.variants[1].selector = [pat |-> "_"]
    /\ arg.variants[2].selector = [pat |-> "literal", v |-> 0]
    /\ ~ret.built

\* C20: the arms are tried in declaration order and the first whose pattern
\* matches the selector is used; a selector that matches no arm, without a
\* wildcard arm, fails with the selection_error if one was given and else
\* with ParsingError of kind Switch; with a wildcard arm that error never
\* occurs.
Matching(variants, v) ==
    {k \in 1 .. Len(variants) :
        \/ variants[k].selector = [pat |-> "_"]
        \/ variants[k].selector = [pat |-> "literal", v |-> v]}

IsUnmatchedError(r) ==
    ~r.ok /\ (r.err.tag = "selection_error" \/ IsErrKind(r, "Switch"))

C20_ArmSelection ==
    (fn = "enum" /\ ret.built /\ u8_parse(arg.text).ok) =>
        LET m == Matching(arg.variants, u8_parse(arg.text).out)
        IN  /\ m # {} =>
                /\ ret.arm \in m
                /\ \A k \in m : ret.arm <= k
                /\ ~IsUnmatchedError(ret.result)
            /\ m = {} =>
                /\ ret.arm = 0
                /\ arg.selection_error => ret.result = Err([tag |-> "selection_error"])
                /\ ~arg.selection_error => IsErrKind(ret.result, "Switch")
            /\ WildcardArms(arg.variants) # {} => ~IsUnmatchedError(ret.result)

\* "2,42" on an enum with arms 0 and 1 and no selection_error: Switch
C20_UnmatchedSwitch ==
    /\ fn = "enum"
    /\ Len(arg.variants) = 2
    /\ arg.variants[1].selector = [pat |-> "literal", v |-> 0]
    /\ arg.variants[2].selector = [pat |-> "literal", v |-> 1]
    /\ ~arg.selection_error
    /\ arg.text = <<50, 44, 52, 50>>
    /\ ret.built
    /\ IsErrKind(ret.result, "Switch")

\* C24: on the text left after line-ending handling, checksum_crlf gives
\* Some(value) with nothing remaining for '*' and exactly two hex digits of
\* either case; Eof for '*' and fewer than two characters; Count for '*' and
\* more than two; IsA for '*' and two characters that are not both hex
\* digits; without a leading '*', Char in Required checksum mode and, in
\* Optional mode, None for the empty text and Count otherwise.
LineEndingOk(le, t) ==
    IF le = "Required"
    THEN EndsWithCrlf(t) /\ ~ContainsCrlf(Take(t, Len(t) - 2))
    ELSE ~ContainsCrlf(t)

AfterLineEnding(le, t) == IF le = "Required" THEN Take(t, Len(t) - 2) ELSE t

C24_ChecksumFieldClasses ==
    (fn = "checksum_crlf" /\ LineEndingOk(arg.le, arg.text)) =>
        LET s == AfterLineEnding(arg.le, arg.text)
            starred == Len(s) > 0 /\ s[1] = 42
            r == IF Len(s) > 0 THEN Tail(s) ELSE <<>>
        IN  /\ (starred /\ IsHexPair(r)) => ret = Ok(<<>>, Some(HexPairValue(r)))
            /\ (starred /\ Len(r) < 2) => IsErrKind(ret, "Eof")
            /\ (starred /\ Len(r) > 2) => IsErrKind(ret, "Count")
            /\ (starred /\ Len(r) = 2 /\ ~IsHexPair(r)) => IsErrKind(ret, "IsA")
            /\ (~starred /\ arg.mode = "Required") => IsErrKind(ret, "Char")
            /\ (~starred /\ arg.mode = "Optional" /\ s = <<>>) => ret = Ok(<<>>, None)
            /\ (~starred /\ arg.mode = "Optional" /\ s # <<>>) => IsErrKind(ret, "Count")

\* "*aa" with CRLF forbidden: the lowercase digits were read as 0xAA
C24_LowercaseRead ==
    /\ fn = "checksum_crlf"
    /\ arg.le = "Forbidden"
    /\ arg.text = <<42, 97, 97>>
    /\ ret = Ok(<<>>, Some(170))

\* C27: whenever the content parser is called, the content slice holds
\* neither '*' nor CRLF, in every configuration; so with
\* LineEndingMode::Forbidden no input that holds a CRLF anywhere is accepted.
C27_ContentSliceClean ==
    /\ content_calls >= 1 => ~ContainsStar(data) /\ ~ContainsCrlf(data)
    /\ (Returned /\ leMode = "Forbidden" /\ ContainsCrlf(input)) => ~result.ok

\* The part of it about '*': the content slice never holds a '*'
C27_NoStarInContent == content_calls >= 1 => ~ContainsStar(data)

\* With CRLF forbidden, "$X\r\n*5F" was accepted with content "X\r\n"
C27_CrlfInsideContent ==
    /\ Returned
    /\ leMode = "Forbidden"
    /\ input = <<36, 88, 13, 10, 42, 53, 70>>
    /\ data = <<88, 13, 10>>
    /\ result.ok

\* C28: [T; N]::parse and [T; N]::parse_preceded never panic: for every
\* N >= 0 and every input they return Ok with exactly N elements or an Err.
NoPanic(r) ==
    \/ r.ok /\ Len(r.out) = arg.N
    \/ ~r.ok /\ r.err.tag = "ParsingError"

C28_ArrayNeverPanics ==
    fn \in {"[T; N]::parse", "[T; N]::parse_preceded"} => NoPanic(ret)

\* The same for parse_preceded alone, and for parse with N >= 1
C28_ArrayNeverPanicsButParseZero ==
    /\ fn = "[T; N]::parse_preceded" => NoPanic(ret)
    /\ (fn = "[T; N]::parse" /\ arg.N >= 1) => NoPanic(ret)

\* [u8; 0]::parse_preceded(',') on ",2" returned no element and left ",2"
C28_EmptyArrayPreceded ==
    /\ fn = "[T; N]::parse_preceded"
    /\ arg.N = 0
    /\ arg.text = <<44, 50>>
    /\ ret = Ok(<<44, 50>>, <<>>)

\* The directive list carries the directive d
Carries(attrs, d) == \E k \in 1 .. Len(attrs) : attrs[k] = d

\* C21: building an enum parser fails when the enum has no selector
\* directive, when it carries a separator directive, or when one of its
\* variants has no selector directive of its own.
C21_EnumNeedsSelectors ==
    (fn = "derive enum"
        /\ \/ ~Carries(arg.attrs, "selector")
           \/ Carries(arg.attrs, "separator")
           \/ \E a \in 1 .. Len(arg.variants) :
                  ~Carries(arg.variants[a].attrs, "selector"))
    => ~ret.built

\* enum with selector whose second variant has no selector directive: refused
C21_VariantWithoutSelector ==
    /\ fn = "derive enum"
    /\ arg.attrs = <<"selector">>
    /\ arg.variants = <<[attrs |-> <<"selector">>, selector |-> Literal(0),
                         fields |-> <<PlainField>>],
                        [attrs |-> <<>>, selector |-> Wildcard,
                         fields |-> <<PlainField>>]>>
    /\ ~ret.built
    /\ ret.error.msg = "Variants must have a selector attribute"

\* C22: a field's directive list that holds both parser and parse_as is
\* rejected, whichever comes first.
C22_ParserParseAsExclusive ==
    (fn = "parse_field_level_attributes"
        /\ Carries(arg.attrs, "parser") /\ Carries(arg.attrs, "parse_as"))
    => ~ret.ok

\* #[nmea(parse_as(..), parser(..))] was rejected at the parser directive
C22_ParseAsThenParser ==
    /\ fn = "parse_field_level_attributes"
    /\ arg.attrs = <<"parse_as", "parser">>
    /\ ret = SynError("parser cannot be used with parse_as", "parser")

\* What the fields of the derived struct leave and give on the text, the
\* type's pre_exec done and its post_exec not yet
AfterLastField ==
    IF fn = "derive struct"
    THEN generated_body(pre_post_exec(arg.attrs).pre_exec, ret.plan, <<>>, arg.text)
    ELSE enum_body([from_dataenum(arg.attrs, arg.variants).out
                        EXCEPT !.post_exec = <<>>], arg.text).result

ExactRule ==
    IF Carries(arg.attrs, "exact")
    THEN IF AfterLastField.rem # <<>>
         THEN ret.result = Err(ParsingError(AfterLastField.rem, "Verify"))
         ELSE ret.result = Ok(<<>>, AfterLastField.out)
    ELSE ret.result = Ok(AfterLastField.rem, AfterLastField.out)

C23_SkipAfterThenExact ==
    /\ fn = "derive struct"
    /\ arg.attrs = <<"skip_after", "exact">>
    /\ arg.fields = <<PlainField>>
    /\ arg.text = <<50, 120>>
    /\ ret.built
    /\ ret.result = Ok(<<>>, <<2>>)

\* The recipe the directives fold to, the first parser-affecting directive
\* outermost
ParserAffecting == {"parser", "parse_as", "ignore", "cond", "into", "map"}
IsParserAffecting(d) == d \in ParserAffecting
InnerOfOption(ty) == IF ty = "Option<u8>" THEN "u8" ELSE ty

RECURSIVE Recipe(_, _, _)
Recipe(ty, ds, sep) ==
    IF ds = <<>> THEN [kind |-> "Type", ty |-> ty, separator |-> sep]
    ELSE CASE Head(ds) = "parser" ->
                  [kind |-> "Raw",
                   tokens |-> IF sep THEN "preceded(separator, parser)" ELSE "parser"]
           [] Head(ds) = "parse_as" -> Recipe("Option<u8>", Tail(ds), sep)
           [] Head(ds) = "ignore" ->
                  [kind |-> "Raw", tokens |-> "success(default)", ty |-> ty]
           [] Head(ds) = "cond" ->
                  [kind |-> "Cond", parser |-> Recipe(InnerOfOption(ty), Tail(ds), sep)]
           [] Head(ds) = "into" ->
                  [kind |-> "Into", parser |-> Recipe(ty, Tail(ds), sep)]
           [] Head(ds) = "map" ->
                  [kind |-> "Map", parser |-> Recipe(ty, Tail(ds), sep)]

\* C25: get_parser folds the parser-affecting directives in declaration
\* order, the first outermost: parser ends the fold (preceded by the
\* separator when separator-prefixed), parse_as goes on with its type, ignore
\* ends it with success(default), which consumes nothing, cond (on the inner
\* type of Option), into and map wrap the rest; with none left the recipe is
\* the type's parse_preceded(separator) or parse.
C25_RecipeFolding ==
    fn = "get_parser" =>
        /\ ret = Recipe(arg.ty, SelectSeq(arg.attrs, IsParserAffecting),
                        arg.separator)
        /\ \A s \in DeriveTexts :
               /\ (ret.kind = "Type" /\ arg.separator)
                      => parser_parse(ret, s) = T_parse_preceded(ret.ty, s)
               /\ (ret.kind = "Type" /\ ~arg.separator)
                      => parser_parse(ret, s) = T_parse(ret.ty, s)
               /\ (ret.kind = "Raw" /\ ret.tokens = "success(default)")
                      => /\ parser_parse(ret, s).ok
                         /\ parser_parse(ret, s).rem = s

\* a: u8 with parse_as(Option<u8>), cond(c), separator-prefixed:
\* cond(c, <u8>::parse_preceded(separator))
C25_ParseAsThenCond ==
    /\ fn = "get_parser"
    /\ arg.ty = "u8"
    /\ arg.attrs = <<"parse_as", "cond">>
    /\ arg.separator
    /\ ret = [kind |-> "Cond",
              parser |-> [kind |-> "Type", ty |-> "u8", separator |-> TRUE]]

\* The separator rule of from_fields on the fields of the call
SeparatorRule ==
    \A k \in 1 .. Len(arg.fields) :
        ret.out[k].separator <=>
            /\ ~Carries(arg.fields[k].attrs, "ignore")
            /\ arg.preceded
                   \/ \E j \in 1 .. k - 1 : ~Carries(arg.fields[j].attrs, "ignore")

\* The parser of field k leaves every text as it is
ConsumesNothing(k) ==
    \A s \in DeriveTexts :
        /\ field_parse(ret.out[k], s).ok
        /\ field_parse(ret.out[k], s).rem = s

\* C29: a field that carries ignore never consumes input, is never
\* separator-prefixed and does not count as the first field, whatever other
\* directives it carries and in whatever order.
C29_IgnoredFieldInert ==
    (fn = "from_fields" /\ ret.ok) =>
        /\ SeparatorRule
        /\ \A k \in 1 .. Len(arg.fields) :
               Carries(arg.fields[k].attrs, "ignore") => ConsumesNothing(k)

\* What holds of it: the separator rule, and no input consumed unless a
\* parser directive is written before ignore
C29_IgnoredFieldInertUnlessParserFirst ==
    (fn = "from_fields" /\ ret.ok) =>
        /\ SeparatorRule
        /\ \A k \in 1 .. Len(arg.fields) :
               (Carries(arg.fields[k].attrs, "ignore")
                   /\ ~\E p, q \in 1 .. Len(arg.fields[k].attrs) :
                          /\ p < q
                          /\ arg.fields[k].attrs[p] = "parser"
                          /\ arg.fields[k].attrs[q] = "ignore") => ConsumesNothing(k)

\* a: u8 with parser(u8::parse), ignore: the field's parser is u8::parse
\* without separator, which takes the "2" of "2,5"
C29_ParserThenIgnore ==
    /\ fn = "from_fields"
    /\ arg.fields = <<[ty |-> "u8", attrs |-> <<"parser", "ignore">>]>>
    /\ ret.ok
    /\ ~ret.out[1].separator
    /\ ret.out[1].parser = [kind |-> "Raw", tokens |-> "parser"]
    /\ field_parse(ret.out[1], <<50, 44, 53>>) = Ok(<<44, 53>>, 2)

\* C30: a struct with a type-level separator directive is rejected, as an
\* enum is, so every parser built separates with the default char(',').
C30_SeparatorRejected ==
    fn \in {"derive struct", "derive enum"} =>
        /\ Carries(arg.attrs, "separator") => ~ret.built
        /\ ret.built => ret.config.separator = "char(',')"

\* #[nmea(separator(..))] struct { a: u8 } was refused
C30_StructWithSeparator ==
    /\ fn = "derive struct"
    /\ arg.attrs = <<"separator">>
    /\ arg.fields = <<PlainField>>
    /\ ~ret.built
    /\ ret.error = [tag |-> "syn::Error",
                    msg |-> "Structs do not support this attribute",
                    attr |-> "separator"]

\* The element parse of the step to come, when the step makes one
StepParses ==
    Running /\ (arg.at = "loop" /\ fn = "heapless::Vec::parse loop"
                    => Len(arg.elems) # arg.N)
StepParse ==
    IF arg.at = "first" THEN elem_parse(arg.T, arg.cur)
    ELSE elem_parse_preceded(arg.T, arg.cur)

\* C26: Vec<T>::parse and heapless::Vec<T, N>::parse terminate on every
\* text: every step of a running call returns or leaves a strictly shorter
\* input, an element parse that succeeds without consuming ends the call
\* with Many0 at the input it was given, and every call entered returns.
C26_LoopsTerminate ==
    /\ [][Running => (ret' # Pending \/ Len(arg'.cur) < Len(arg.cur))]_vars
    /\ [][(StepParses /\ StepParse.ok /\ Len(StepParse.rem) = Len(arg.cur))
              => ret' = Err(ParsingError(arg.cur, "Many0"))]_vars
    /\ (fn # "none") ~> (ret # Pending)

\* Vec::<Vec<u8>>::parse("2x"): the first element took "2", the second
\* succeeded on nothing and the call ended with Many0 at "x"
C26_ZeroWidthInLoop ==
    /\ fn = "Vec::parse loop"
    /\ arg.T = "Vec<u8>"
    /\ arg.text = <<50, 120>>
    /\ arg.elems = << <<2>> >>
    /\ ret = Err(ParsingError(<<120>>, "Many0"))

=============================================================================
